---- MODULE Spec2Model ----
(***************************************************************************)
(* A model of the KPC assistant: the MCP client (src/src/mcp-client.ts)    *)
(* and the assistant built on it (src/src/ai-assistant.ts).                *)
(*                                                                         *)
(* Every JavaScript string is a sequence of tokens.  An utterance is a     *)
(* sequence of one-character tokens, so that String.includes, toLowerCase  *)
(* and charAt work on characters.  A backend reply is a sequence of        *)
(* lexical tokens (delimiters, JSON punctuation, JSON literals, prose), so *)
(* that the regular expressions of parseToolCallResponse and JSON.parse    *)
(* work on what they look for.  A Chinese character is written as its      *)
(* pinyin syllable ("tong", "ji" for the two characters of the statistics  *)
(* keyword): one token per character.  "FENCE" is the three backquotes of  *)
(* a code fence and "FENCEjson" the same followed by the tag json.         *)
(***************************************************************************)
EXTENDS Integers, Sequences, FiniteSets, TLC

(***************************************************************************)
(* Bounds of the model.                                                    *)
(***************************************************************************)
\* words of an utterance
MaxWords == 3
\* tokens of an arbitrary backend reply handed to the parser
MaxRawLen == 4
\* tokens of thinking content and prose added around a fenced call
MaxNoise == 2
\* operations a caller makes directly on the MCP client in one session
MaxOps == 3
\* tokens (words and separators) of a configured server command line
MaxCommandLen == 3
\* callers that use one client at the same time
MaxCallers == 2

(***************************************************************************)
(* Strings as token sequences.                                             *)
(***************************************************************************)
RECURSIVE Flatten(_)
Flatten(ss) == IF ss = <<>> THEN <<>> ELSE Head(ss) \o Flatten(Tail(ss))

\* String.prototype.startsWith at position i (1-based)
MatchAt(s, p, i) ==
    /\ i + Len(p) - 1 <= Len(s)
    /\ \A k \in 1..Len(p) : s[i + k - 1] = p[k]

\* String.prototype.includes
Includes(s, p) == \E i \in 1..(Len(s) + 1) : MatchAt(s, p, i)

\* the white space String.prototype.trim removes
IsSpace(t) == t \in {" ", "\n"}

RECURSIVE TrimLeft(_)
TrimLeft(s) == IF s # <<>> /\ IsSpace(Head(s)) THEN TrimLeft(Tail(s)) ELSE s

RECURSIVE TrimRight(_)
TrimRight(s) ==
    IF s # <<>> /\ IsSpace(s[Len(s)]) THEN TrimRight(SubSeq(s, 1, Len(s) - 1)) ELSE s

\* String.prototype.trim
Trim(s) == TrimRight(TrimLeft(s))

\* the upper-case letters of the model and their lower-case forms
LowerOf(c) ==
    CASE c = "B" -> "b"
      [] c = "T" -> "t"
      [] c = "N" -> "n"
      [] c = "U" -> "u"
      [] c = "L" -> "l"
      [] c = "NULL" -> "null"
      [] c = "Null" -> "null"
      [] OTHER -> c

UpperOf(c) ==
    CASE c = "b" -> "B"
      [] c = "t" -> "T"
      [] c = "f" -> "F"
      [] c = "i" -> "I"
      [] c = "s" -> "S"
      [] c = "d" -> "D"
      [] c = "u" -> "U"
      [] c = "p" -> "P"
      [] c = "r" -> "R"
      [] c = "c" -> "C"
      [] OTHER -> c

\* String.prototype.toLowerCase
ToLowerCase(s) == [i \in 1..Len(s) |-> LowerOf(s[i])]

(***************************************************************************)
(* The catalog (initializeToolDescriptions).                               *)
(***************************************************************************)
toolDescriptions ==
    << "get_kpc_component", "search_kpc_components", "get_kpc_usage_examples",
       "validate_kpc_usage", "get_kpc_stats" >>

ToolNames == {toolDescriptions[i] : i \in 1..Len(toolDescriptions)}

(***************************************************************************)
(* JSON values: what JSON.parse returns and what a FunctionCall is.        *)
(* An object is the sequence of its members in insertion order.            *)
(***************************************************************************)
JNull == [t |-> "null"]
JNum == [t |-> "num"]
JStr(s) == [t |-> "str", s |-> s]
JObj(m) == [t |-> "obj", m |-> m]
\* reading a property that is absent gives undefined
JUndefined == [t |-> "undefined"]

HasKey(o, k) == o.t = "obj" /\ \E i \in 1..Len(o.m) : o.m[i].k = k

\* o[k], undefined when o has no such property
Get(o, k) ==
    IF HasKey(o, k)
    THEN o.m[CHOOSE i \in 1..Len(o.m) : o.m[i].k = k].v
    ELSE JUndefined

\* a FunctionCall, or null
NoCall == JNull
Call(name, args) ==
    JObj(<< [k |-> "name", v |-> JStr(<< name >>)], [k |-> "arguments", v |-> args] >>)
Arg1(k, v) == JObj(<< [k |-> k, v |-> v] >>)
NoArgs == JObj(<< >>)

(***************************************************************************)
(* fallbackToolDetection and capitalizeFirst.                              *)
(***************************************************************************)
Chars(w) ==
    CASE w = "button" -> << "b", "u", "t", "t", "o", "n" >>
      [] w = "form" -> << "f", "o", "r", "m" >>
      [] w = "table" -> << "t", "a", "b", "l", "e" >>
      [] w = "input" -> << "i", "n", "p", "u", "t" >>
      [] w = "select" -> << "s", "e", "l", "e", "c", "t" >>
      [] w = "dialog" -> << "d", "i", "a", "l", "o", "g" >>
      [] w = "tooltip" -> << "t", "o", "o", "l", "t", "i", "p" >>
      [] w = "datepicker" -> << "d", "a", "t", "e", "p", "i", "c", "k", "e", "r" >>
      [] w = "upload" -> << "u", "p", "l", "o", "a", "d" >>
      [] w = "pagination" -> << "p", "a", "g", "i", "n", "a", "t", "i", "o", "n" >>
      [] w = "switch" -> << "s", "w", "i", "t", "c", "h" >>
      [] w = "radio" -> << "r", "a", "d", "i", "o" >>
      [] w = "tab" -> << "t", "a", "b" >>
      [] w = "checkbox" -> << "c", "h", "e", "c", "k", "b", "o", "x" >>
      [] w = "dropdown" -> << "d", "r", "o", "p", "d", "o", "w", "n" >>

commonComponents ==
    << "button", "form", "table", "input", "select", "dialog", "tooltip",
       "datepicker", "upload", "pagination", "switch", "radio", "tab",
       "checkbox", "dropdown" >>

StatsKeywords ==
    { << "duo", "shao", "ge" >>, << "zong", "gong" >>, << "tong", "ji" >>, << "shu", "liang" >> }

SearchKeywords ==
    { << "sou", "suo" >>, << "cha", "zhao" >>, << "zhao" >>, << "xiang", "guan", "zu", "jian" >> }

\* the alternatives of the query-cleaning pattern, in the pattern's order
QueryStrip ==
    << << "sou", "suo" >>, << "cha", "zhao" >>, << "zhao" >>, << "xiang", "guan", "zu", "jian" >>,
       << "de", "zu", "jian" >>, << "zu", "jian" >> >>

\* the first alternative of the pattern matching s at position i, 0 if none
StripAt(s, i) ==
    LET hits == {j \in 1..Len(QueryStrip) : MatchAt(s, QueryStrip[j], i)}
    IN  IF hits = {} THEN 0
        ELSE Len(QueryStrip[CHOOSE j \in hits : \A h \in hits : j <= h])

\* String.prototype.replace with the global pattern and an empty replacement
RECURSIVE ReplaceAll(_, _)
ReplaceAll(s, i) ==
    IF i > Len(s) THEN <<>>
    ELSE IF StripAt(s, i) > 0 THEN ReplaceAll(s, i + StripAt(s, i))
    ELSE << s[i] >> \o ReplaceAll(s, i + 1)

capitalizeFirst(str) ==
    IF str = <<>> THEN <<>> ELSE << UpperOf(str[1]) >> \o Tail(str)

\* commonComponents.find(name => msg.includes(name)): the index, 0 if none
mentionedComponent(msg) ==
    LET hits == {i \in 1..Len(commonComponents) : Includes(msg, Chars(commonComponents[i]))}
    IN  IF hits = {} THEN 0 ELSE CHOOSE i \in hits : \A h \in hits : i <= h

fallbackFirstComponent(message) ==
    Call("get_kpc_component",
         Arg1("component", JStr(capitalizeFirst(Chars(commonComponents[1])))))

fallbackSearchFirst(message) ==
    LET msg == ToLowerCase(message)
        m == mentionedComponent(msg)
    IN  IF \E k \in SearchKeywords : Includes(msg, k)
        THEN Call("search_kpc_components",
                  Arg1("query", JStr(Trim(ReplaceAll(message, 1)))))
        ELSE IF \E k \in StatsKeywords : Includes(msg, k)
        THEN Call("get_kpc_stats", NoArgs)
        ELSE IF m # 0
        THEN Call("get_kpc_component",
                  Arg1("component", JStr(capitalizeFirst(Chars(commonComponents[m])))))
        ELSE NoCall

fallbackToolDetection(message) ==
    LET msg == ToLowerCase(message)
        m == mentionedComponent(msg)
    IN  IF \E k \in StatsKeywords : Includes(msg, k)
        THEN Call("get_kpc_stats", NoArgs)
        ELSE IF \E k \in SearchKeywords : Includes(msg, k)
        THEN Call("search_kpc_components",
                  Arg1("query", JStr(Trim(ReplaceAll(message, 1)))))
        ELSE IF m # 0
        THEN Call("get_kpc_component",
                  Arg1("component", JStr(capitalizeFirst(Chars(commonComponents[m])))))
        ELSE NoCall

(***************************************************************************)
(* JSON.parse on the tokens of a backend reply.  A key token is a property *)
(* name with its colon; a string token is a string literal.                *)
(***************************************************************************)
KeyTokens == { "\"name\":", "\"arguments\":", "\"query\":", "\"component\":" }

KeyOf(tok) ==
    CASE tok = "\"name\":" -> "name"
      [] tok = "\"arguments\":" -> "arguments"
      [] tok = "\"query\":" -> "query"
      [] tok = "\"component\":" -> "component"

StrTokens ==
    { "\"get_kpc_component\"", "\"search_kpc_components\"", "\"get_kpc_stats\"",
      "\"list_kpc_components\"", "\"Button\"", "\"biaodan\"", "\"\"" }

StrOf(tok) ==
    CASE tok = "\"get_kpc_component\"" -> << "get_kpc_component" >>
      [] tok = "\"search_kpc_components\"" -> << "search_kpc_components" >>
      [] tok = "\"get_kpc_stats\"" -> << "get_kpc_stats" >>
      [] tok = "\"list_kpc_components\"" -> << "list_kpc_components" >>
      [] tok = "\"Button\"" -> << "Button" >>
      [] tok = "\"biaodan\"" -> << "biaodan" >>
      [] tok = "\"\"" -> << >>

ParseFail == [ok |-> FALSE, v |-> JNull, rest |-> << >>]
ParseOk(v, rest) == [ok |-> TRUE, v |-> v, rest |-> rest]

\* a later member with the same property name replaces the earlier value
Put(m, k, v) ==
    IF \E i \in 1..Len(m) : m[i].k = k
    THEN [i \in 1..Len(m) |-> IF m[i].k = k THEN [k |-> k, v |-> v] ELSE m[i]]
    ELSE Append(m, [k |-> k, v |-> v])

RECURSIVE ParseValue(_)
RECURSIVE ParseMembers(_, _)

ParseValue(ts) ==
    LET s == TrimLeft(ts)
    IN  IF s = << >> THEN ParseFail
        ELSE IF Head(s) = "null" THEN ParseOk(JNull, Tail(s))
        ELSE IF Head(s) = "1" THEN ParseOk(JNum, Tail(s))
        ELSE IF Head(s) \in StrTokens THEN ParseOk(JStr(StrOf(Head(s))), Tail(s))
        ELSE IF Head(s) = "{"
        THEN LET b == TrimLeft(Tail(s))
             IN  IF b # << >> /\ Head(b) = "}"
                 THEN ParseOk(JObj(<< >>), Tail(b))
                 ELSE ParseMembers(b, << >>)
        ELSE ParseFail

ParseMembers(ts, acc) ==
    LET s == TrimLeft(ts)
    IN  IF s = << >> \/ Head(s) \notin KeyTokens THEN ParseFail
        ELSE LET r == ParseValue(Tail(s))
                 m == Put(acc, KeyOf(Head(s)), r.v)
                 e == TrimLeft(r.rest)
             IN  IF ~r.ok \/ e = << >> THEN ParseFail
                 ELSE IF Head(e) = "}" THEN ParseOk(JObj(m), Tail(e))
                 ELSE IF Head(e) = "," THEN ParseMembers(Tail(e), m)
                 ELSE ParseFail

\* JSON.parse: a value, white space around it, nothing else; else it throws
JSONparse(ts) ==
    LET r == ParseValue(ts)
    IN  IF r.ok /\ TrimLeft(r.rest) = << >> THEN [ok |-> TRUE, v |-> r.v]
        ELSE [ok |-> FALSE, v |-> JNull]

(***************************************************************************)
(* parseToolCallResponse.                                                  *)
(***************************************************************************)
Positions(s, toks) == {i \in 1..Len(s) : s[i] \in toks}
MinOf(S) == CHOOSE i \in S : \A j \in S : i <= j
MaxOf(S) == CHOOSE i \in S : \A j \in S : i >= j

KeepThink(s) == s

\* replace(/<think>[\s\S]*?<\/think>/g, '')
RECURSIVE RemoveThink(_)
RemoveThink(s) ==
    LET opens == Positions(s, {"<think>"})
    IN  IF opens = {} THEN s
        ELSE LET i == MinOf(opens)
                 closes == {j \in Positions(s, {"</think>"}) : j > i}
             IN  IF closes = {} THEN s
                 ELSE SubSeq(s, 1, i - 1)
                      \o RemoveThink(SubSeq(s, MinOf(closes) + 1, Len(s)))

\* "FENCEjson" starts with "FENCE": either token closes a fence
FenceTokens == {"FENCE", "FENCEjson"}

\* match(/<open>\n?([\s\S]*?)FENCE/): the capture, or no match
FenceMatch(s, open) ==
    LET i == MinOf(Positions(s, {open}))
        from == IF i < Len(s) /\ s[i + 1] = "\n" THEN i + 2 ELSE i + 1
        closes == {j \in Positions(s, FenceTokens) : j >= from}
    IN  IF closes = {} THEN [ok |-> FALSE, v |-> << >>]
        ELSE [ok |-> TRUE, v |-> SubSeq(s, from, MinOf(closes) - 1)]

KeepFence(s) == s

StripFence(s) ==
    IF Positions(s, {"FENCEjson"}) # {}
    THEN IF FenceMatch(s, "FENCEjson").ok THEN FenceMatch(s, "FENCEjson").v ELSE s
    ELSE IF Positions(s, {"FENCE"}) # {}
    THEN IF FenceMatch(s, "FENCE").ok THEN FenceMatch(s, "FENCE").v ELSE s
    ELSE s

\* match(/\{[\s\S]*\}/): from the first "{" to the last "}"
ExtractBraces(s) ==
    LET opens == Positions(s, {"{"})
        closes == Positions(s, {"}"})
    IN  IF opens # {} /\ closes # {} /\ MaxOf(closes) > MinOf(opens)
        THEN SubSeq(s, MinOf(opens), MaxOf(closes))
        ELSE s

\* the candidate handed to the null test and to JSON.parse
Candidate(response) == Trim(ExtractBraces(StripFence(RemoveThink(Trim(response)))))

\* parsed && typeof parsed === "object" && parsed.name
Truthy(v) == v.t \in {"num", "obj"} \/ (v.t = "str" /\ v.s # << >>)

validToolAcceptsAnyName(parsed) == TRUE

\* toolDescriptions.find(tool => tool.name === parsed.name)
validTool(parsed) ==
    \E i \in 1..Len(toolDescriptions) : JStr(<< toolDescriptions[i] >>) = Get(parsed, "name")

\* the result when nothing throws
parseBody(response) ==
    LET c == Candidate(response)
        p == JSONparse(c)
    IN  IF ToLowerCase(c) = << "null" >> \/ c = << >> THEN [threw |-> FALSE, v |-> NoCall]
        ELSE IF ~p.ok THEN [threw |-> TRUE, v |-> NoCall]
        ELSE IF p.v.t = "obj" /\ Truthy(Get(p.v, "name")) /\ validTool(p.v)
        THEN [threw |-> FALSE, v |-> p.v]
        ELSE [threw |-> FALSE, v |-> NoCall]

parseWithoutCatch(response) == parseBody(response)

\* the try/catch around the body: a throw becomes null
parseToolCallResponse(response) ==
    [threw |-> FALSE, v |-> parseBody(response).v]

(***************************************************************************)
(* State.                                                                  *)
(***************************************************************************)
VARIABLES
    connected,   \* KPCMCPClient.connected
    alive,       \* the child process behind the client's channel is running
    spawns,      \* child processes spawned so far (client.connect calls)
    connFails,   \* connects that failed so far
    closes,      \* client.close() calls so far
    serverCommand, \* KPCMCPClient.serverCommand
    transport,   \* KPCMCPClient.transport: null, or the command and args it spawns
    host,        \* the program hosting the assistant: API server, CLI or demo
    proc,        \* the host process: not started, up, in its cleanup, exited
    inflight,    \* callers using the client at the same time: where each one
                 \* stands, and how many child processes they have left alive
    ops,         \* operations started directly on the client so far
    calls,       \* client methods (capability calls) started so far
    pc,          \* where the running invocation is suspended
    mode,        \* which entry point is running
    message,     \* its utterance
    toolAction,  \* the FunctionCall detectToolNeeded returned, or null
    toolResult,  \* the string executeTool returned
    result,      \* how the invocation ended
    sink,        \* the chunks handed to onChunk, oldest first
    log,         \* the requests the invocation has made, oldest first
    wire,        \* what the backend has yet to put on the response body
    raw,         \* the backend text handed to parseToolCallResponse
    parsed,      \* what it returned
    intended,    \* the call object the backend wrote into that text, if any
    prose,       \* the prose the backend wrote around that call
    thought      \* a reply with a call inside its thinking block: that call, the
                 \* call outside the block if any, the text outside the block

hvars == << host, proc, inflight >>
tvars == << connected, alive, spawns, connFails, closes, serverCommand, transport, hvars >>
cvars == << pc, mode, message, toolAction, toolResult, result, sink, log, wire >>
pvars == << raw, parsed, intended, prose, thought >>
vars == << connected, alive, spawns, connFails, closes, serverCommand, transport, host, proc, inflight, ops, calls, pc, mode, message,
           toolAction, toolResult, result, sink, log, wire, raw, parsed, intended, prose,
           thought >>

Pending == [kind |-> "pending", v |-> << >>]
Resolved(v) == [kind |-> "resolved", v |-> v]
Rejected(e) == [kind |-> "rejected", v |-> e]

(***************************************************************************)
(* KPCMCPClient.                                                           *)
(***************************************************************************)
\* connect(): "if (this.connected) return"
connectIsNoop == connected

\* String.prototype.split(" "): the pieces between the spaces, empty ones kept
RECURSIVE SplitOnSpace(_)
SplitOnSpace(s) ==
    LET at == Positions(s, {" "})
    IN  IF at = {} THEN << s >>
        ELSE << SubSeq(s, 1, MinOf(at) - 1) >>
             \o SplitOnSpace(SubSeq(s, MinOf(at) + 1, Len(s)))

\* the command and the args connect() takes from serverCommand
parseCommand(cmd) ==
    IF Positions(cmd, {" "}) # {}
    THEN [command |-> Head(SplitOnSpace(cmd)), args |-> Tail(SplitOnSpace(cmd))]
    ELSE [command |-> cmd, args |-> << >>]

\* "if (!command) throw": connect() gives up before it creates the transport
commandIsEmpty == parseCommand(serverCommand).command = << >>

\* connect() gets as far as spawning the child process
connectSpawns == ~connectIsNoop /\ ~commandIsEmpty

\* new StdioClientTransport({command, args, stderr})
StdioClientTransport(c) == [t |-> "transport", command |-> c.command, args |-> c.args]

connectKeepsFlagOnFailure(ok) ==
    IF connectIsNoop
    THEN UNCHANGED << connected, alive, spawns, transport, connFails >>
    ELSE /\ spawns' = spawns + 1
         /\ transport' = StdioClientTransport(parseCommand(serverCommand))
         /\ connected' = TRUE
         /\ alive' = ok
         /\ connFails' = IF ok THEN connFails ELSE connFails + 1

\* connect(), given whether the spawn and the handshake succeed
connect(ok) ==
    IF connectIsNoop
    THEN UNCHANGED << connected, alive, spawns, transport, connFails >>
    ELSE IF commandIsEmpty
    THEN /\ connFails' = connFails + 1
         /\ UNCHANGED << connected, alive, spawns, transport >>
    ELSE /\ spawns' = spawns + 1
         /\ transport' = StdioClientTransport(parseCommand(serverCommand))
         /\ connected' = ok
         /\ alive' = ok
         /\ connFails' = IF ok THEN connFails ELSE connFails + 1

connectThrows(ok) == ~connectIsNoop /\ (commandIsEmpty \/ ~ok)

\* ensureConnected()
ensureConnected(ok) ==
    IF ~connected THEN connect(ok)
    ELSE UNCHANGED << connected, alive, spawns, transport, connFails >>

ensureConnectedThrows(ok) == ~connected /\ connectThrows(ok)

\* disconnect(), given whether client.close() succeeds; it never throws
disconnect(ok) ==
    IF ~connected
    THEN UNCHANGED << connected, alive, closes >>
    ELSE /\ closes' = closes + 1
         /\ connected' = IF ok THEN FALSE ELSE connected
         /\ alive' \in IF ok THEN {FALSE} ELSE {alive, FALSE}

\* the sentinel of each client method: "result.content[0]?.text || sentinel"
Sentinel(name) ==
    CASE name = "get_kpc_component" -> << "no result obtained" >>
      [] name = "search_kpc_components" -> << "no matching component found" >>
      [] name = "list_kpc_components" -> << "no component list obtained" >>
      [] name = "validate_kpc_usage" -> << "validation failed" >>
      [] name = "get_kpc_usage_examples" -> << "no examples obtained" >>
      [] name = "get_kpc_stats" -> << "no statistics obtained" >>

\* what the server may answer to a callTool request
Seg(type, hasText, text) == [type |-> type, hasText |-> hasText, text |-> text]
Reply(hasContent, content) == [hasContent |-> hasContent, content |-> content]
Replies ==
    { Reply(TRUE, << Seg("text", TRUE, << "doc" >>) >>),
      Reply(TRUE, << Seg("text", TRUE, << "doc" >>), Seg("text", TRUE, << "more" >>) >>),
      Reply(TRUE, << Seg("text", TRUE, << " " >>) >>),
      Reply(TRUE, << Seg("text", TRUE, << "undefined" >>) >>),
      Reply(TRUE, << Seg("text", TRUE, << >>) >>),
      Reply(TRUE, << Seg("image", FALSE, << >>) >>),
      Reply(TRUE, << Seg("image", TRUE, << "doc" >>) >>),
      Reply(TRUE, << >>),
      Reply(FALSE, << >>) }

TransportError == << "Error: Not connected" >>
RequestError == << "McpError: request failed" >>
ReadOfUndefined == << "TypeError: Cannot read properties of undefined" >>
SpawnError == << "Error: spawn ENOENT" >>
CommandError == << "Error: Server command is empty or undefined" >>
\* what a failing connect() throws
connectError == IF commandIsEmpty THEN CommandError ELSE SpawnError

Threw(e) == [threw |-> TRUE, v |-> e]
Returned(v) == [threw |-> FALSE, v |-> v]

\* how callTool ends: with the channel dead it rejects; with it alive the
\* server answers or the request fails
CallToolOutcomes ==
    IF alive
    THEN {[ok |-> TRUE, reply |-> r, err |-> << >>] : r \in Replies}
         \cup {[ok |-> FALSE, reply |-> Reply(FALSE, << >>), err |-> RequestError]}
    ELSE {[ok |-> FALSE, reply |-> Reply(FALSE, << >>), err |-> TransportError]}

\* the try block of a client method after callTool has ended with outcome o:
\* "return result.content[0]?.text || sentinel", and "throw error" in the catch
clientResult(name, o) ==
    IF ~o.ok THEN Threw(o.err)
    ELSE IF ~o.reply.hasContent THEN Threw(ReadOfUndefined)
    ELSE IF o.reply.content = << >> THEN Returned(Sentinel(name))
    ELSE IF ~o.reply.content[1].hasText \/ o.reply.content[1].text = << >>
    THEN Returned(Sentinel(name))
    ELSE Returned(o.reply.content[1].text)

connectedAfterCallDropped(o) == FALSE

\* the connection flag after a client method's callTool has ended with outcome o
connectedAfterCall(o) == connected

(***************************************************************************)
(* What the generative backend may write: a JSON value as tokens.          *)
(***************************************************************************)
KeyTok(k) ==
    CASE k = "name" -> "\"name\":"
      [] k = "arguments" -> "\"arguments\":"
      [] k = "query" -> "\"query\":"
      [] k = "component" -> "\"component\":"

StrTok(v) == CHOOSE tok \in StrTokens : StrOf(tok) = v

RECURSIVE Render(_)
RECURSIVE RenderMembers(_)
Render(v) ==
    CASE v.t = "null" -> << "null" >>
      [] v.t = "num" -> << "1" >>
      [] v.t = "str" -> << StrTok(v.s) >>
      [] v.t = "obj" -> << "{" >> \o RenderMembers(v.m) \o << "}" >>

RenderMembers(m) ==
    IF m = << >> THEN << >>
    ELSE << KeyTok(m[1].k) >> \o Render(m[1].v)
         \o (IF Len(m) > 1 THEN << "," >> ELSE << >>) \o RenderMembers(Tail(m))

\* a fenced code block: the opening fence, an optional line break, the
\* interior, a line break, the closing fence
Fenced(open, nl, interior) ==
    << open >> \o (IF nl THEN << "\n" >> ELSE << >>) \o interior \o << "\n", "FENCE" >>

\* the replies of the backend to the classification prompt that the
\* assistant is run against
ClassifyReplies ==
    { << "null" >>,
      << "<think>", "prose", "</think>", "\n" >>
          \o Fenced("FENCEjson", TRUE, Render(Call("get_kpc_stats", NoArgs))),
      Render(Call("get_kpc_component", Arg1("component", JStr(<< "Button" >>)))),
      Render(Call("list_kpc_components", NoArgs)),
      Render(JObj(<< [k |-> "name", v |-> JStr(<< "get_kpc_component" >>)] >>)),
      << "prose", "{" >> }

\* the replies of the backend to a prompt asking for an answer
AnswerTexts == { << "answer" >>, << "another answer" >> }

(***************************************************************************)
(* The literal texts of KPCAIAssistant (in English; the source's are       *)
(* Chinese), each a template around what it interpolates.                  *)
(***************************************************************************)
ErrChat(e) == << "Sorry, an error occurred while handling your question: " >> \o e
ToolFailed(e) == << "Tool execution failed: " >> \o e
UnknownTool(name) == << "Unknown tool: " >> \o name
NoValidResult(name) ==
    << "Tool " >> \o name \o << " returned no valid result. Check the arguments or retry later." >>
CannedChat(m) ==
    << "Hello! I am the KPC assistant. Your question \"" >> \o m
    \o << "\" needs an AI answer, but the Ollama service is unavailable. Make sure ..." >>
CannedStream ==
    << "Hello! I am the KPC assistant. Your question needs an AI answer, but the Ollama service is unavailable. Ask about a KPC component ..." >>
StatusNotice(name) == << "Querying " >> \o name \o << "...\n\n" >>
StreamFailed(e) == << "Streaming response failed: " >> \o e
OllamaError(e) == << "Error: cannot connect to the Ollama service: " >> \o e
ApiError == << "Error: Ollama API error: ", "statusText" >>
FetchFailed == << "TypeError: fetch failed" >>
NoReader == << "Error: Failed to get response reader" >>
ReadFailed == << "TypeError: terminated" >>

ClassifyPrompt(m) ==
    << "You judge tool calls. Tools: " >> \o toolDescriptions
    \o << "User question: " >> \o m \o << "Answer with the JSON call or null only." >>
DirectPrompt(m) ==
    << "You are a front-end assistant good at Kpc components. User question: " >> \o m
    \o << "Answer friendly and professionally; ask for details if needed." >>
StreamDirectPrompt(m) ==
    << "You are a front-end assistant good at Vue components. User question: " >> \o m
    \o << "Answer friendly and professionally." >>
FinalPrompt(m, r) ==
    << "You are a KPC expert. User question: " >> \o m \o << "Tool result: " >> \o r
    \o << "Answer from the result: 1. directly 2. with advice 3. best practices 4. concisely" >>
StreamFinalPrompt(m, r) ==
    << "You are a KPC expert. User question: " >> \o m \o << "Tool result: " >> \o r
    \o << "Answer from the result, friendly and professionally." >>

(***************************************************************************)
(* KPCAIAssistant: the pure parts.                                         *)
(***************************************************************************)
\* the ways a request to the backend ends: a success status, another
\* status, or no response at all
HttpOutcomes == {"ok", "status", "error"}

checkAnyResponse(o) == o # "error"

\* checkOllamaService, given how GET /api/tags ends
checkOllamaService(o) == o = "ok"

\* callOllama, given how POST /api/generate ends and the text of a success
callOllama(o, text) ==
    IF o = "ok" THEN Returned(text)
    ELSE Threw(OllamaError(IF o = "status" THEN ApiError ELSE FetchFailed))

chatCatchRethrows(e) == Rejected(e)

\* the catch of chat
chatCatch(e) == Resolved(ErrChat(e))

NameOf(call) == Get(call, "name").s
ArgsOf(call) == Get(call, "arguments")

\* the cases of executeTool's switch: the client method and the arguments read
SwitchCases ==
    { "get_kpc_component", "search_kpc_components", "get_kpc_usage_examples",
      "validate_kpc_usage", "get_kpc_stats" }

ArgsRead(name) ==
    CASE name = "get_kpc_component" -> << "component" >>
      [] name = "search_kpc_components" -> << "query", "category", "fuzzy" >>
      [] name = "get_kpc_usage_examples" -> << "component", "scenario", "framework" >>
      [] name = "validate_kpc_usage" -> << "component", "props", "context" >>
      [] name = "get_kpc_stats" -> << >>

\* reading args.x throws when args is undefined or null
ArgsReadThrows(call) ==
    /\ ArgsRead(NameOf(call)[1]) # << >>
    /\ ArgsOf(call).t \in {"undefined", "null"}

\* the arguments of the callTool request a client method sends
SentArgs(call) ==
    LET ks == ArgsRead(NameOf(call)[1])
    IN  JObj([i \in 1..Len(ks) |-> [k |-> ks[i], v |-> Get(ArgsOf(call), ks[i])]])

\* "!result || result.trim() === '' || result === 'undefined'"
IsEmptyResult(r) == r = << >> \/ Trim(r) = << >> \/ r = << "undefined" >>

executeToolResultAlwaysEmpty(name, c) ==
    IF c.threw THEN ToolFailed(c.v) ELSE NoValidResult(name)

\* executeTool after the client method has ended with outcome c
executeToolResult(name, c) ==
    IF c.threw THEN ToolFailed(c.v)
    ELSE IF IsEmptyResult(c.v) THEN NoValidResult(name)
    ELSE c.v

streamCatchSilent(sk, e) == sk

\* the catch of streamOllama: the failure message goes to the sink sk
streamCatch(sk, e) == Append(sk, StreamFailed(e))

\* the lines of one read that streamOllama parses, and what it forwards
Record(text, done) == [part |-> "whole", text |-> text, done |-> done]
HeadOf(r) == [part |-> "head", text |-> r.text, done |-> r.done]
TailOf(r) == [part |-> "tail", text |-> r.text, done |-> r.done]

\* the text the backend answers with: the deltas of its records, in order
RECURSIVE Deltas(_)
Deltas(body) ==
    IF body = << >> THEN << >> ELSE Head(body).text \o Deltas(Tail(body))

RECURSIVE Forwarded(_)
Forwarded(lines) ==
    IF lines = << >> THEN << >>
    ELSE (IF Head(lines).part = "whole" /\ Head(lines).text # << >>
          THEN << Head(lines).text >> ELSE << >>) \o Forwarded(Tail(lines))

(***************************************************************************)
(* The inputs the assistant is run against.                                *)
(***************************************************************************)
\* the words utterances are made of: two statistics keywords, two search
\* keywords (one containing the one-character keyword), component names in
\* several cases (one a prefix of another), and words no rule matches
Vocabulary ==
    { << "tong", "ji" >>, << "cha", "zhao" >>, << "xiang", "guan", "zu", "jian" >>,
      << "B", "u", "t", "t", "o", "n" >>, << "t", "a", "b", "l", "e" >>,
      << "T", "a", "b" >>, << "ni", "hao" >>, << "de", "zu", "jian" >> }

SeqsUpTo(A, n) == UNION {[1..k -> A] : k \in 0..n}

\* every utterance of at most MaxWords words
Utterances == {Flatten(ws) : ws \in SeqsUpTo(Vocabulary, MaxWords)}

\* the utterances chat and chatStream are run on: two that no rule matches,
\* a component mentioned, a statistics and a search keyword with a component
ChatUtterances ==
    { << "ni", "hao" >>,
      << "de", "zu", "jian" >>,
      << "B", "u", "t", "t", "o", "n", "de", "zu", "jian" >>,
      << "tong", "ji", "cha", "zhao", "t", "a", "b", "l", "e" >> }

\* the calls made directly on the client (getComponent, getStats)
DirectCalls ==
    { Call("get_kpc_component", Arg1("component", JStr(<< "Button" >>))),
      Call("get_kpc_stats", NoArgs) }

\* the bodies a streamed response is drawn from: an empty one, one that
\* closes after its done record, one with a record after its done record
ChatBodies ==
    { << >>, << Record(<< "Hel" >>, FALSE), Record(<< "lo" >>, FALSE), Record(<< >>, TRUE) >>,
      << Record(<< "Hel" >>, FALSE), Record(<< >>, TRUE), Record(<< "late" >>, FALSE) >> }

(***************************************************************************)
(* Initial state: the assistant and its client just constructed.           *)
(***************************************************************************)
Init ==
    /\ connected = FALSE
    /\ alive = FALSE
    /\ spawns = 0
    /\ connFails = 0
    /\ closes = 0
    /\ serverCommand = << "kpc-mcp-server" >>
    /\ transport = JNull
    /\ host = "none"
    /\ proc = "none"
    /\ inflight = [at |-> [c \in 1..MaxCallers |-> "idle"], live |-> 0]
    /\ ops = 0
    /\ calls = 0
    /\ pc = "idle"
    /\ mode = "none"
    /\ message = << >>
    /\ toolAction = NoCall
    /\ toolResult = << >>
    /\ result = Pending
    /\ sink = << >>
    /\ log = << >>
    /\ wire = << >>
    /\ raw = << >>
    /\ parsed = parseToolCallResponse(<< >>)
    /\ intended = NoCall
    /\ prose = << >>
    /\ thought = [inner |-> NoCall, outer |-> NoCall, outside |-> << >>]

(***************************************************************************)
(* Log entries.                                                            *)
(***************************************************************************)
ProbeEntry(o, ok) == [op |-> "probe", outcome |-> o, ok |-> ok]
GenEntry(kind, stream, prompt, ok, text) ==
    [op |-> "generate", kind |-> kind, stream |-> stream, prompt |-> prompt,
     ok |-> ok, text |-> text]
SpawnEntry(ok) == [op |-> "spawn", ok |-> ok]
CallEntry(name, args, o) ==
    [op |-> "callTool", name |-> name, arguments |-> args, ok |-> o.ok, reply |-> o.reply]
ReadEntry(ok) == [op |-> "read", ok |-> ok]
\* connect() and disconnect() have returned to their caller; client.close()
ConnectEntry(threw) == [op |-> "connect", threw |-> threw]
DisconnectEntry == [op |-> "disconnect", threw |-> FALSE]
CloseEntry(ok) == [op |-> "close", ok |-> ok]
\* client.listTools(); getAvailableTools() has returned to its caller
ListToolsEntry(ok) == [op |-> "listTools", ok |-> ok]
ToolsEntry(threw) == [op |-> "getAvailableTools", threw |-> threw]
\* a termination signal has reached the host process
SignalEntry(sig, conn) == [op |-> "signal", sig |-> sig, connected |-> conn]

(***************************************************************************)
(* The continuations of the asynchronous methods.                          *)
(***************************************************************************)
FinishLeavesPending(r) == pc' = "done" /\ result' = Pending

\* the invocation ends
Finish(r) == pc' = "done" /\ result' = r

EnterToolSkipsCall(ta) == pc' = "post_probe" /\ toolResult' = toolResult

\* executeTool up to its first suspension, entered with the call ta
EnterTool(ta) ==
    IF NameOf(ta)[1] \notin SwitchCases
    THEN pc' = "post_probe" /\ toolResult' = UnknownTool(NameOf(ta))
    ELSE IF ArgsReadThrows(ta)
    THEN pc' = "post_probe" /\ toolResult' = ToolFailed(ReadOfUndefined)
    ELSE pc' = "tool_connect" /\ toolResult' = toolResult

ClassifiedWithoutNotice(ta) ==
    /\ toolAction' = ta
    /\ IF ta # NoCall
       THEN EnterTool(ta) /\ UNCHANGED << result, sink >>
       ELSE pc' = "direct_probe" /\ UNCHANGED << toolResult, result, sink >>

\* detectToolNeeded has returned ta to chat, to chatStream, or to a caller
\* of its own
Classified(ta) ==
    /\ toolAction' = ta
    /\ IF mode = "classify"
       THEN Finish(Resolved(<< >>)) /\ UNCHANGED << toolResult, sink, serverCommand, hvars >>
       ELSE IF ta # NoCall
       THEN /\ EnterTool(ta)
            /\ sink' = IF mode = "chatStream"
                       THEN Append(sink, StatusNotice(NameOf(ta))) ELSE sink
            /\ UNCHANGED result
       ELSE pc' = "direct_probe" /\ UNCHANGED << toolResult, result, sink, serverCommand, hvars >>

ToolEndedAborts(c) ==
    IF c.threw
    THEN Finish(Resolved(ErrChat(c.v))) /\ UNCHANGED toolResult
    ELSE /\ pc' = "post_probe"
         /\ toolResult' = executeToolResult(NameOf(toolAction), c)
         /\ UNCHANGED result

\* a client method has ended with outcome c: in executeTool, or in a direct
\* caller of the client
ToolEnded(c) ==
    IF mode = "direct"
    THEN /\ Finish(IF c.threw THEN Rejected(c.v) ELSE Resolved(c.v))
         /\ UNCHANGED toolResult
    ELSE /\ pc' = "post_probe"
         /\ toolResult' = executeToolResult(NameOf(toolAction), c)
         /\ UNCHANGED result

(***************************************************************************)
(* detectToolNeeded.                                                       *)
(***************************************************************************)
DetectProbe ==
    /\ pc = "detect_probe"
    /\ \E o \in HttpOutcomes :
         /\ log' = Append(log, ProbeEntry(o, checkOllamaService(o)))
         /\ IF checkOllamaService(o)
            THEN /\ pc' = "detect_generate"
                 /\ UNCHANGED << toolAction, toolResult, result, sink, serverCommand, hvars >>
            ELSE Classified(fallbackToolDetection(message))
    /\ UNCHANGED << tvars, ops, calls, mode, message, wire, pvars >>

detectResultFallsBackOnNone(r, msg) ==
    IF r.threw \/ parseToolCallResponse(r.v).v = NoCall
    THEN fallbackToolDetection(msg)
    ELSE parseToolCallResponse(r.v).v

\* what detectToolNeeded returns once callOllama has ended with outcome r
detectResult(r, msg) ==
    IF r.threw THEN fallbackToolDetection(msg) ELSE parseToolCallResponse(r.v).v

DetectGenerate ==
    /\ pc = "detect_generate"
    /\ \E o \in HttpOutcomes, text \in ClassifyReplies :
         /\ log' = Append(log, GenEntry("classify", FALSE, ClassifyPrompt(message),
                                        o = "ok", IF o = "ok" THEN text ELSE << >>))
         /\ Classified(detectResult(callOllama(o, text), message))
    /\ UNCHANGED << tvars, ops, calls, mode, message, wire, pvars >>

(***************************************************************************)
(* executeTool: the client method it awaits.                               *)
(***************************************************************************)
ToolConnect ==
    /\ pc = "tool_connect"
    /\ \E ok \in BOOLEAN :
         /\ ensureConnected(ok)
         /\ log' = IF connectSpawns THEN Append(log, SpawnEntry(ok)) ELSE log
         /\ IF ensureConnectedThrows(ok)
            THEN ToolEnded(Threw(connectError))
            ELSE pc' = "tool_call" /\ UNCHANGED << toolResult, result, serverCommand, hvars >>
    /\ calls' = calls + 1
    /\ UNCHANGED << closes, ops, mode, message, toolAction, sink, wire, pvars, serverCommand, hvars >>

ToolCall ==
    /\ pc = "tool_call"
    /\ \E o \in CallToolOutcomes :
         /\ log' = Append(log, CallEntry(NameOf(toolAction), SentArgs(toolAction), o))
         /\ connected' = connectedAfterCall(o)
         /\ ToolEnded(clientResult(NameOf(toolAction)[1], o))
    /\ UNCHANGED << alive, spawns, transport, connFails, closes, ops, calls, mode, message,
                    toolAction, sink, wire, pvars, serverCommand, hvars >>

(***************************************************************************)
(* chat and chatStream after executeTool; directAnswer, streamDirectAnswer *)
(***************************************************************************)
PostProbe ==
    /\ pc = "post_probe"
    /\ \E o \in HttpOutcomes :
         /\ log' = Append(log, ProbeEntry(o, checkOllamaService(o)))
         /\ IF checkOllamaService(o)
            THEN pc' = "final_generate" /\ UNCHANGED << result, sink, serverCommand, hvars >>
            ELSE IF mode = "chat"
            THEN Finish(Resolved(toolResult)) /\ UNCHANGED sink
            ELSE Finish(Resolved(<< >>)) /\ sink' = Append(sink, toolResult)
    /\ UNCHANGED << tvars, ops, calls, mode, message, toolAction, toolResult, wire, pvars >>

DirectProbeSkipped ==
    /\ pc = "direct_probe"
    /\ pc' = "direct_generate"
    /\ UNCHANGED << tvars, ops, calls, mode, message, toolAction, toolResult, result, sink,
                    log, wire, pvars >>

\* directAnswer and streamDirectAnswer: the probe
DirectProbe ==
    /\ pc = "direct_probe"
    /\ \E o \in HttpOutcomes :
         /\ log' = Append(log, ProbeEntry(o, checkOllamaService(o)))
         /\ IF checkOllamaService(o)
            THEN pc' = "direct_generate" /\ UNCHANGED << result, sink, serverCommand, hvars >>
            ELSE IF mode = "chat"
            THEN Finish(Resolved(CannedChat(message))) /\ UNCHANGED sink
            ELSE Finish(Resolved(<< >>)) /\ sink' = Append(sink, CannedStream)
    /\ UNCHANGED << tvars, ops, calls, mode, message, toolAction, toolResult, wire, pvars >>

\* the prompt of the answering request
AnswerPrompt(kind) ==
    IF kind = "final"
    THEN IF mode = "chat" THEN FinalPrompt(message, toolResult)
         ELSE StreamFinalPrompt(message, toolResult)
    ELSE IF mode = "chat" THEN DirectPrompt(message) ELSE StreamDirectPrompt(message)

\* generateFinalAnswer and directAnswer: callOllama, its text returned by
\* chat, its exception caught by chat
BufferedAnswer(kind) ==
    /\ mode = "chat"
    /\ \E o \in HttpOutcomes, text \in AnswerTexts :
         /\ log' = Append(log, GenEntry(kind, FALSE, AnswerPrompt(kind), o = "ok",
                                        IF o = "ok" THEN text ELSE << >>))
         /\ Finish(IF callOllama(o, text).threw
                   THEN chatCatch(callOllama(o, text).v)
                   ELSE Resolved(callOllama(o, text).v))
    /\ UNCHANGED << sink, wire, serverCommand, hvars >>

\* streamOllama up to its first read: the request, the status test, the reader
StreamFetchOutcomes == {"ok", "status", "error", "nobody"}

StreamFetchError(o) ==
    CASE o = "status" -> ApiError
      [] o = "error" -> FetchFailed
      [] o = "nobody" -> NoReader

StreamedAnswer(kind, bodies) ==
    /\ mode = "chatStream"
    /\ \E o \in StreamFetchOutcomes, body \in bodies :
         /\ log' = Append(log, GenEntry(kind, TRUE, AnswerPrompt(kind), o = "ok",
                                        IF o = "ok" THEN Deltas(body) ELSE << >>))
         /\ IF o = "ok"
            THEN pc' = "stream_read" /\ wire' = body /\ UNCHANGED << result, sink, serverCommand, hvars >>
            ELSE /\ sink' = streamCatch(sink, StreamFetchError(o))
                 /\ Finish(Resolved(<< >>))
                 /\ UNCHANGED wire

FinalGenerate ==
    /\ pc = "final_generate"
    /\ BufferedAnswer("final") \/ StreamedAnswer("final", ChatBodies)
    /\ UNCHANGED << tvars, ops, calls, mode, message, toolAction, toolResult, pvars >>

DirectGenerate ==
    /\ pc = "direct_generate"
    /\ BufferedAnswer("direct") \/ StreamedAnswer("direct", ChatBodies)
    /\ UNCHANGED << tvars, ops, calls, mode, message, toolAction, toolResult, pvars >>

(***************************************************************************)
(* streamOllama: the read loop.                                            *)
(***************************************************************************)
\* the stream has closed: the loop breaks and chatStream resolves
StreamEnd ==
    /\ pc = "stream_read"
    /\ wire = << >>
    /\ Finish(Resolved(<< >>))
    /\ UNCHANGED << tvars, ops, calls, mode, message, toolAction, toolResult, sink, log, wire, pvars >>

\* the caller of chatStream is gone: from now on onChunk throws
SinkFailedEntry == [op |-> "sinkFailed"]
sinkFailed == \E i \in 1..Len(log) : log[i].op = "sinkFailed"
SinkError == << "Error: write after end" >>

\* the for loop over the lines of one read: each onChunk call stands in the
\* inner try, whose catch swallows what it throws; the loop goes on
forwardLines(lines) == IF sinkFailed THEN sink ELSE sink \o Forwarded(lines)

\* the reads that return after the caller is gone are logged
readReturned == IF sinkFailed THEN Append(log, ReadEntry(TRUE)) ELSE log

\* a read returns the next n lines whole
StreamRead ==
    /\ pc = "stream_read"
    /\ \E n \in 1..Len(wire) :
         /\ sink' = forwardLines(SubSeq(wire, 1, n))
         /\ wire' = SubSeq(wire, n + 1, Len(wire))
    /\ log' = readReturned
    /\ UNCHANGED << tvars, ops, calls, pc, mode, message, toolAction, toolResult, result, pvars >>

\* a read returns n lines and the first part of the next; the rest of that
\* line comes with a later read
StreamReadSplit ==
    /\ pc = "stream_read"
    /\ \E n \in 0..(Len(wire) - 1) :
         /\ wire[n + 1].part = "whole"
         /\ sink' = forwardLines(Append(SubSeq(wire, 1, n), HeadOf(wire[n + 1])))
         /\ wire' = << TailOf(wire[n + 1]) >> \o SubSeq(wire, n + 2, Len(wire))
    /\ log' = readReturned
    /\ UNCHANGED << tvars, ops, calls, pc, mode, message, toolAction, toolResult, result, pvars >>

\* a read rejects: the catch of streamOllama emits the failure message; when
\* onChunk throws there, and again in the catch of chatStream, chatStream
\* rejects
StreamReadFail ==
    /\ pc = "stream_read"
    /\ sink' = IF sinkFailed THEN sink ELSE streamCatch(sink, ReadFailed)
    /\ log' = Append(log, ReadEntry(FALSE))
    /\ Finish(IF sinkFailed THEN Rejected(SinkError) ELSE Resolved(<< >>))
    /\ UNCHANGED << tvars, ops, calls, mode, message, toolAction, toolResult, wire, pvars >>

\* the caller's side of the stream ends while the body is being read (the
\* HTTP client of POST /chat/stream disconnects, or onChunk starts to throw)
ClientDisconnect ==
    /\ pc = "stream_read"
    /\ ~sinkFailed
    /\ log' = Append(log, SinkFailedEntry)
    /\ UNCHANGED << tvars, ops, calls, pc, mode, message, toolAction, toolResult, result, sink,
                    wire, pvars >>

(***************************************************************************)
(* The callers.                                                            *)
(***************************************************************************)
\* chat(userMessage) or chatStream(userMessage, onChunk) is called
StartChat ==
    /\ pc = "idle"
    /\ \E m \in {"chat", "chatStream"}, u \in ChatUtterances :
         /\ mode' = m
         /\ message' = u
    /\ pc' = "detect_probe"
    /\ UNCHANGED << tvars, ops, calls, toolAction, toolResult, result, sink, log, wire, pvars >>

\* detectToolNeeded(message) is called on its own
StartClassify ==
    /\ pc = "idle"
    /\ \E u \in Utterances : message' = u
    /\ mode' = "classify"
    /\ pc' = "detect_probe"
    /\ UNCHANGED << tvars, ops, calls, toolAction, toolResult, result, sink, log, wire, pvars >>

\* initialize(): connect before the first invocation
Initialize ==
    /\ pc = "idle"
    /\ ops = 0
    /\ ops' = 1
    /\ \E ok \in BOOLEAN : connect(ok)
    /\ UNCHANGED << closes, calls, cvars, pvars, serverCommand, hvars >>

\* the child process exits
ChildExit ==
    /\ connected
    /\ alive
    /\ alive' = FALSE
    /\ UNCHANGED << connected, spawns, transport, connFails, closes, ops, calls, cvars, pvars,
                    serverCommand, hvars >>

\* what a server command line is made of: words, the space, the tab
CommandAlphabet == { "node", "server.js", " ", "\t" }
Commands == SeqsUpTo(CommandAlphabet, MaxCommandLen)

\* new KPCMCPClient(serverCommand)
Construct ==
    /\ pc = "idle"
    /\ mode = "none"
    /\ ops = 0
    /\ \E cmd \in Commands : serverCommand' = cmd
    /\ mode' = "direct"
    /\ UNCHANGED << connected, alive, spawns, transport, connFails, closes, hvars, ops,
                    calls, pc, message, toolAction, toolResult, result, sink, log, wire,
                    pvars >>

\* connect() is called on the client
DirectConnect ==
    /\ pc = "idle"
    /\ ops < MaxOps
    /\ ops' = ops + 1
    /\ \E ok \in BOOLEAN :
         /\ connect(ok)
         /\ log' = log \o (IF connectSpawns THEN << SpawnEntry(ok) >> ELSE << >>)
                       \o << ConnectEntry(connectThrows(ok)) >>
         /\ result' = IF connectThrows(ok) THEN Rejected(connectError) ELSE Resolved(<< >>)
    /\ UNCHANGED << closes, calls, pc, mode, message, toolAction, toolResult, sink, wire, pvars,
                    serverCommand, hvars >>

\* disconnect() is called on the client
DirectDisconnect ==
    /\ pc = "idle"
    /\ ops < MaxOps
    /\ ops' = ops + 1
    /\ \E ok \in BOOLEAN :
         /\ disconnect(ok)
         /\ log' = log \o (IF connected THEN << CloseEntry(ok) >> ELSE << >>)
                       \o << DisconnectEntry >>
    /\ result' = Resolved(<< >>)
    /\ UNCHANGED << spawns, transport, connFails, calls, pc, mode, message, toolAction, toolResult,
                    sink, wire, pvars, serverCommand, hvars >>

\* a client method is called on the client
DirectCall ==
    /\ pc = "idle"
    /\ ops < MaxOps
    /\ ops' = ops + 1
    /\ \E c \in DirectCalls : toolAction' = c
    /\ mode' = "direct"
    /\ pc' = "tool_connect"
    /\ result' = Pending
    /\ log' = << >>
    /\ UNCHANGED << tvars, calls, message, toolResult, sink, wire, pvars >>

\* result.tools of a listTools answer: the names the server declares
ServerTools == << "get_kpc_component", "get_kpc_stats" >>

\* getAvailableTools(), given whether ensureConnected threw (with err) and
\* whether client.listTools() answered
getAvailableTools(connectThrew, err, listed) ==
    IF connectThrew THEN Rejected(err)
    ELSE IF listed THEN Resolved(ServerTools)
    ELSE Resolved(<< >>)

\* getAvailableTools() is called on the client
DirectListTools ==
    /\ pc = "idle"
    /\ ops < MaxOps
    /\ ops' = ops + 1
    /\ \E ok \in BOOLEAN, listed \in BOOLEAN :
         /\ ensureConnected(ok)
         /\ listed => alive'
         /\ result' = getAvailableTools(ensureConnectedThrows(ok), connectError, listed)
         /\ log' = log \o (IF connectSpawns THEN << SpawnEntry(ok) >> ELSE << >>)
                       \o (IF ensureConnectedThrows(ok) THEN << >>
                           ELSE << ListToolsEntry(listed) >>)
                       \o << ToolsEntry(ensureConnectedThrows(ok)) >>
    /\ UNCHANGED << closes, serverCommand, calls, pc, mode, message, toolAction, toolResult, sink,
                    wire, pvars, hvars >>

(***************************************************************************)
(* Client methods called at the same time: connect() up to its await, and  *)
(* after it.                                                               *)
(***************************************************************************)
Callers == 1..MaxCallers

\* caller c enters ensureConnected(): with the flag set it goes on to its
\* request; otherwise connect() creates a transport and awaits
\* client.connect(transport), which spawns the child process
BeginCall(c) ==
    /\ inflight.at[c] = "idle"
    /\ ops < MaxOps
    /\ ops' = ops + 1
    /\ IF connected
       THEN /\ inflight' = [inflight EXCEPT !.at[c] = "calling"]
            /\ UNCHANGED << spawns, transport >>
       ELSE /\ inflight' = [at |-> [inflight.at EXCEPT ![c] = "connecting"],
                            live |-> inflight.live + 1]
            /\ spawns' = spawns + 1
            /\ transport' = StdioClientTransport(parseCommand(serverCommand))
    /\ UNCHANGED << connected, alive, connFails, closes, serverCommand, host, proc, calls,
                    cvars, pvars >>

\* the await of caller c ends: "this.connected = true", or the catch, which
\* rethrows; whether the child of a failed handshake stays alive is the
\* library's affair
EndConnect(c) ==
    /\ inflight.at[c] = "connecting"
    /\ \E ok \in BOOLEAN, dies \in BOOLEAN :
         IF ok
         THEN /\ connected' = TRUE
              /\ alive' = TRUE
              /\ inflight' = [inflight EXCEPT !.at[c] = "calling"]
              /\ UNCHANGED connFails
         ELSE /\ connFails' = connFails + 1
              /\ inflight' = [at |-> [inflight.at EXCEPT ![c] = "idle"],
                               live |-> IF dies THEN inflight.live - 1 ELSE inflight.live]
              /\ UNCHANGED << connected, alive >>
    /\ UNCHANGED << spawns, transport, closes, serverCommand, host, proc, ops, calls, cvars,
                    pvars >>

\* the request of caller c is answered and its client method returns
EndCall(c) ==
    /\ inflight.at[c] = "calling"
    /\ inflight' = [inflight EXCEPT !.at[c] = "idle"]
    /\ calls' = calls + 1
    /\ UNCHANGED << connected, alive, spawns, transport, connFails, closes, serverCommand,
                    host, proc, ops, cvars, pvars >>

\* disconnect() has been called while another caller stood in the await of
\* connect() or of disconnect() (busy), or while none did
DisconnectCallEntry(busy) == [op |-> "disconnectCall", busy |-> busy]

\* caller c calls disconnect(): "if (!this.connected) return", else it awaits
\* client.close()
BeginDisconnect(c) ==
    /\ inflight.at[c] = "idle"
    /\ ops < MaxOps
    /\ ops' = ops + 1
    /\ log' = Append(log, DisconnectCallEntry(
                  \E d \in Callers : inflight.at[d] \in {"connecting", "closing"}))
    /\ IF connected
       THEN /\ inflight' = [inflight EXCEPT !.at[c] = "closing"]
            /\ closes' = closes + 1
       ELSE UNCHANGED << inflight, closes >>
    /\ UNCHANGED << connected, alive, spawns, transport, connFails, serverCommand, host, proc,
                    calls, pc, mode, message, toolAction, toolResult, result, sink, wire,
                    pvars >>

\* the await of client.close() ends: "this.connected = false" and the child
\* of the current transport is released, or the catch, which only logs
EndDisconnect(c) ==
    /\ inflight.at[c] = "closing"
    /\ \E ok \in BOOLEAN :
         IF ok
         THEN /\ connected' = FALSE
              /\ alive' = FALSE
              /\ inflight' = [at |-> [inflight.at EXCEPT ![c] = "idle"],
                               live |-> IF alive /\ inflight.live > 0
                                        THEN inflight.live - 1 ELSE inflight.live]
         ELSE /\ inflight' = [inflight EXCEPT !.at[c] = "idle"]
              /\ UNCHANGED << connected, alive >>
    /\ UNCHANGED << spawns, transport, connFails, closes, serverCommand, host, proc, ops,
                    calls, cvars, pvars >>

\* one of the child processes exits: the one behind the client's current
\* transport, or one an earlier connect() left behind
ChildLost ==
    /\ inflight.live > 0
    /\ inflight' = [inflight EXCEPT !.live = inflight.live - 1]
    /\ \E current \in BOOLEAN : alive' = IF current THEN FALSE ELSE alive
    /\ UNCHANGED << connected, spawns, transport, connFails, closes, serverCommand, host,
                    proc, ops, calls, cvars, pvars >>

(***************************************************************************)
(* The host processes and their termination signals.                       *)
(***************************************************************************)
Hosts == {"server", "cli", "demo"}
Signals == {"SIGINT", "SIGTERM"}

\* what the host has registered for a signal: "cleanup" awaits
\* assistant.cleanup() and then calls process.exit, "exit" calls process.exit
\* at once, "default" is no handler (the process is terminated)
signalHandler(h, sig) ==
    CASE h = "server" -> "cleanup"
      [] h = "cli" -> IF sig = "SIGINT" THEN "cleanup" ELSE "default"
      [] h = "demo" -> IF sig = "SIGINT" THEN "exit" ELSE "default"

initializeNeedsBackend(connectThrew, err, o) ==
    IF connectThrew \/ ~checkOllamaService(o) THEN Rejected(err) ELSE Resolved(<< >>)

\* initialize(), given whether mcpClient.connect() threw (with err) and how
\* the probe that follows ended: an unavailable backend is only warned about
initialize(connectThrew, err, o) ==
    IF connectThrew THEN Rejected(err) ELSE Resolved(<< >>)

\* the host starts and awaits assistant.initialize(); it ends when that throws
StartHost ==
    /\ proc = "none"
    /\ pc = "idle"
    /\ \E h \in Hosts, ok \in BOOLEAN, o \in HttpOutcomes :
         /\ host' = h
         /\ connect(ok)
         /\ log' = log \o (IF connectSpawns THEN << SpawnEntry(ok) >> ELSE << >>)
                       \o (IF connectThrows(ok) THEN << >>
                           ELSE << ProbeEntry(o, checkOllamaService(o)) >>)
         /\ result' = initialize(connectThrows(ok), connectError, o)
    /\ proc' = IF result'.kind = "rejected" THEN "exited" ELSE "up"
    /\ UNCHANGED << inflight, closes, serverCommand, ops, calls, pc, mode, message, toolAction,
                    toolResult, sink, wire, pvars >>

\* a termination signal arrives
Signal ==
    /\ proc = "up"
    /\ \E sig \in Signals :
         /\ log' = Append(log, SignalEntry(sig, connected))
         /\ proc' = IF signalHandler(host, sig) = "cleanup" THEN "cleanup" ELSE "exited"
    /\ UNCHANGED << connected, alive, spawns, transport, connFails, closes, serverCommand,
                    host, inflight, ops, calls, pc, mode, message, toolAction, toolResult, result,
                    sink, wire, pvars >>

\* the handler: await assistant.cleanup(), that is disconnect(), then exit
Cleanup ==
    /\ proc = "cleanup"
    /\ \E ok \in BOOLEAN :
         /\ disconnect(ok)
         /\ log' = log \o (IF connected THEN << CloseEntry(ok) >> ELSE << >>)
                       \o << DisconnectEntry >>
    /\ proc' = "exited"
    /\ UNCHANGED << spawns, transport, connFails, serverCommand, host, inflight, ops, calls, pc, mode,
                    message, toolAction, toolResult, result, sink, wire, pvars >>

\* the client method has returned to its caller
DirectReturn ==
    /\ pc = "done"
    /\ mode = "direct"
    /\ pc' = "idle"
    /\ UNCHANGED << tvars, ops, calls, mode, message, toolAction, toolResult, result, sink,
                    log, wire, pvars >>

\* what the host does while it is up: capability calls through the client
HostWork ==
    /\ proc = "up"
    /\ DirectCall \/ ToolConnect \/ ToolCall \/ DirectReturn

(***************************************************************************)
(* parseToolCallResponse on its own.                                       *)
(***************************************************************************)
RawAlphabet ==
    { "<think>", "</think>", "FENCEjson", "FENCE", "{", "}", "\"name\":",
      "\"get_kpc_stats\"", "\"list_kpc_components\"", "NULL", "null", "1", " ",
      "prose" }

\* the backend text grows by a token and is parsed
ParseText ==
    /\ pc = "idle"
    /\ intended = NoCall
    /\ Len(raw) < MaxRawLen
    /\ \E t \in RawAlphabet : raw' = Append(raw, t)
    /\ parsed' = parseToolCallResponse(raw')
    /\ UNCHANGED << tvars, ops, calls, cvars, intended, prose, thought >>

\* what may stand inside a thinking block: anything but its end marker
ThinkAlphabet ==
    { "<think>", "FENCEjson", "FENCE", "{", "}", "\"name\":", "\"get_kpc_stats\"", "null", "prose" }

\* what the prose around the fenced call is made of
ProseAlphabet ==
    { "{", "}", "\"name\":", "\"get_kpc_stats\"", "null", "1", " ", "\n", "prose",
      "FENCE", "<think>", "</think>" }

\* the calls the backend writes into a fenced block
FencedCalls ==
    { Call("get_kpc_stats", NoArgs),
      Call("search_kpc_components", Arg1("query", JStr(<< "biaodan" >>))),
      Call("get_kpc_component", Arg1("component", JStr(<< "Button" >>))) }

\* a reply of the form thinking block, prose, fenced call, prose is parsed
ParseFenced ==
    /\ pc = "idle"
    /\ raw = << >>
    /\ \E a \in 0..MaxNoise :
       \E b \in 0..(MaxNoise - a) :
       \E th \in [1..a -> ThinkAlphabet], p1 \in [1..b -> ProseAlphabet],
          p2 \in SeqsUpTo(ProseAlphabet, MaxNoise - a - b),
          open \in {"FENCEjson", "FENCE"}, nl \in BOOLEAN, c \in FencedCalls :
         /\ raw' = << "<think>" >> \o th \o << "</think>" >> \o p1
                   \o Fenced(open, nl, Render(c)) \o p2
         /\ intended' = c
         /\ prose' = p1 \o p2
    /\ parsed' = parseToolCallResponse(raw')
    /\ UNCHANGED << tvars, ops, calls, cvars, thought >>

\* what the text outside the thinking block is made of, apart from a call
OutsideAlphabet == { "prose", " ", "\n", "null", "{", "}" }

\* a reply whose thinking block holds a call object, bare or fenced; the
\* text outside the block holds prose and possibly a call of its own
ParseThought ==
    /\ pc = "idle"
    /\ raw = << >>
    /\ \E th \in SeqsUpTo(ThinkAlphabet, 1), pre \in SeqsUpTo(OutsideAlphabet, 1),
          post \in SeqsUpTo(OutsideAlphabet, 1), fenced \in BOOLEAN,
          inner \in FencedCalls, outer \in FencedCalls \cup {NoCall} :
         LET inside == th \o (IF fenced THEN Fenced("FENCEjson", TRUE, Render(inner))
                                        ELSE Render(inner))
             outside == (IF outer = NoCall THEN << >> ELSE Render(outer)) \o post
         IN  /\ raw' = pre \o << "<think>" >> \o inside \o << "</think>" >> \o outside
             /\ thought' = [inner |-> inner, outer |-> outer, outside |-> pre \o outside]
    /\ parsed' = parseToolCallResponse(raw')
    /\ UNCHANGED << tvars, ops, calls, cvars, intended, prose >>

(***************************************************************************)
(* Specifications.                                                         *)
(***************************************************************************)
\* one invocation of chat or chatStream, after an optional initialize()
Next ==
    \/ Initialize
    \/ ChildExit
    \/ StartChat
    \/ DetectProbe
    \/ DetectGenerate
    \/ ToolConnect
    \/ ToolCall
    \/ PostProbe
    \/ DirectProbe
    \/ FinalGenerate
    \/ DirectGenerate
    \/ StreamEnd
    \/ StreamRead
    \/ StreamReadSplit
    \/ StreamReadFail

Spec == Init /\ [][Next]_vars

\* the same invocation with a caller that may go away during the stream
NextStreamClient == Next \/ ClientDisconnect

SpecStreamClient == Init /\ [][NextStreamClient]_vars

\* client methods of one client called at the same time
NextConcurrent ==
    \/ \E c \in Callers : BeginCall(c) \/ EndConnect(c) \/ EndCall(c)
    \/ \E c \in Callers : BeginDisconnect(c) \/ EndDisconnect(c)
    \/ ChildLost

SpecConcurrent == Init /\ [][NextConcurrent]_vars

\* detectToolNeeded on every utterance
NextClassify == StartClassify \/ DetectProbe \/ DetectGenerate

SpecClassify == Init /\ [][NextClassify]_vars

\* a session of calls made directly on the client
NextTransport ==
    \/ DirectConnect
    \/ DirectListTools
    \/ DirectDisconnect
    \/ DirectCall
    \/ ToolConnect
    \/ ToolCall
    \/ DirectReturn
    \/ ChildExit

SpecTransport == Init /\ [][NextTransport]_vars

\* a client constructed with a server command line, connected and disconnected
NextCommand == Construct \/ DirectConnect \/ DirectDisconnect

SpecCommand == Init /\ [][NextCommand]_vars

\* a host process from its start to its exit on a termination signal
NextShutdown == StartHost \/ HostWork \/ ChildExit \/ Signal \/ Cleanup

SpecShutdown == Init /\ [][NextShutdown]_vars

\* parseToolCallResponse on every text
NextParse == ParseText \/ ParseFenced \/ ParseThought

SpecParse == Init /\ [][NextParse]_vars

(***************************************************************************)
(* Reading the log and the sink.                                           *)
(***************************************************************************)
Entries(op) == {i \in 1..Len(log) : log[i].op = op}
Generates(kind) == {i \in Entries("generate") : log[i].kind = kind}
Last(q) == q[Len(q)]
IsPrefix(p, q) == Len(p) <= Len(q) /\ SubSeq(q, 1, Len(p)) = p

\* a chunk that reports a failure: the message of streamOllama's catch, of
\* chatStream's catch, or of executeTool's catch
IsFailureChunk(c) ==
    /\ c # << >>
    /\ c[1] \in {StreamFailed(<< >>)[1], ErrChat(<< >>)[1], ToolFailed(<< >>)[1]}
FailureChunks == {i \in 1..Len(sink) : IsFailureChunk(sink[i])}

\* the capability call failed: executeTool ended in its catch (the read of the
\* arguments, the implicit connect or the request threw)
CapabilityFailed == toolResult # << >> /\ toolResult[1] = ToolFailed(<< >>)[1]
\* a request to the backend, or a read of its stream, failed
BackendFailed == \E i \in Entries("generate") \cup Entries("read") : ~log[i].ok
\* the answering stream failed: its request or a read
AnswerStreamFailed ==
    \E i \in Generates("final") \cup Generates("direct") \cup Entries("read") : ~log[i].ok

\* the steps of an invocation (the child process exiting is not one)
InvocationStep ==
    \/ DetectProbe \/ DetectGenerate \/ ToolConnect \/ ToolCall \/ PostProbe
    \/ DirectProbe \/ FinalGenerate \/ DirectGenerate
    \/ StreamEnd \/ StreamRead \/ StreamReadSplit \/ StreamReadFail

\* the same invocation when every request it awaits is eventually settled:
\* each probe, each generate request, each capability call and each read of
\* the response body resolves or rejects, and the body eventually closes
SpecSettled == Init /\ [][Next]_vars /\ WF_vars(InvocationStep)

(***************************************************************************)
(* C1.  chat never rejects: whatever the probes, the generate requests and *)
(* the capability call do, a chat invocation is never ended by an          *)
(* exception, it can always take its next step until it has ended, and it  *)
(* ends resolved with a string.                                            *)
(***************************************************************************)
C1_ChatNeverRejects ==
    mode = "chat" =>
        /\ result.kind # "rejected"
        /\ pc # "done" => ENABLED InvocationStep
        /\ pc = "done" => result.kind = "resolved" /\ result.v \in Seq(STRING)

\* the capability request and the synthesis request both failed
C1_Witness ==
    /\ mode = "chat"
    /\ pc = "done"
    /\ \E i \in Entries("callTool") : ~log[i].ok
    /\ \E i \in Generates("final") : ~log[i].ok
    /\ result.kind = "resolved"

(***************************************************************************)
(* C2.  As claimed: in chatStream, when the capability call or the backend *)
(* (a request or a stream read) has failed, chatStream resolves and the    *)
(* sink holds exactly one failure message chunk, which is the last chunk.  *)
(***************************************************************************)
C2_ExactlyOneFailureChunk ==
    (mode = "chatStream" /\ pc = "done" /\ (CapabilityFailed \/ BackendFailed)) =>
        /\ result.kind = "resolved"
        /\ Cardinality(FailureChunks) = 1
        /\ IsFailureChunk(Last(sink))

(***************************************************************************)
(* C2 as amended.  chatStream never rejects; chunks once emitted stay as   *)
(* they are (the sink only grows at its end); at most one failure message  *)
(* chunk is emitted and it is the last chunk of the invocation; a failure  *)
(* of the answering stream (its request or a read) always emits it; a      *)
(* failed classification request alone emits none; a failed capability     *)
(* call emits its failure text as the last chunk exactly when the probe    *)
(* after it finds the backend unavailable.                                 *)
(***************************************************************************)
C2_StreamState ==
    mode = "chatStream" =>
        /\ result.kind # "rejected"
        /\ Cardinality(FailureChunks) <= 1
        /\ FailureChunks # {} => pc = "done" /\ FailureChunks = {Len(sink)}
        /\ (pc = "done" /\ AnswerStreamFailed) =>
               /\ sink # << >>
               /\ \E e \in {ApiError, FetchFailed, NoReader, ReadFailed} :
                      Last(sink) = StreamFailed(e)
        /\ (pc = "done" /\ ~AnswerStreamFailed /\ ~CapabilityFailed) => FailureChunks = {}
        /\ (pc = "done" /\ CapabilityFailed /\ ~AnswerStreamFailed) =>
               (FailureChunks # {} <=> ~Last(log).ok /\ Last(log).op = "probe")

C2_FailureChunkLast ==
    /\ [] C2_StreamState
    /\ [][mode = "chatStream" => IsPrefix(sink, sink')]_vars

\* a read failed after the status notice and a text delta had been emitted
C2_Witness ==
    /\ mode = "chatStream"
    /\ pc = "done"
    /\ Len(sink) = 3
    /\ toolAction # NoCall
    /\ sink[1] = StatusNotice(NameOf(toolAction))
    /\ sink[2] = << "Hel" >>
    /\ sink[3] = StreamFailed(ReadFailed)

(***************************************************************************)
(* C3.  Buffered protocol, the call made and answered with a non-empty     *)
(* text (not blank and not the word undefined, which executeTool takes for *)
(* empty): if the probe after the call reports the backend unavailable,    *)
(* chat returns exactly that text and sends no synthesis request; if it    *)
(* reports available, one synthesis request follows whose prompt embeds    *)
(* the utterance and that text, and chat returns the text it answers with. *)
(***************************************************************************)
NonEmptyText(t) == Trim(t) # << >> /\ t # << "undefined" >>

\* the text of the first segment of the reply to the capability request
ReplyText(i) == log[i].reply.content[1].text
AnsweredNonEmpty(i) ==
    /\ log[i].op = "callTool"
    /\ log[i].ok
    /\ log[i].reply.hasContent
    /\ log[i].reply.content # << >>
    /\ log[i].reply.content[1].hasText
    /\ NonEmptyText(ReplyText(i))

HasStatsKeyword(m) ==
    \E k \in { << "duo", "shao", "ge" >>, << "zong", "gong" >>, << "tong", "ji" >>,
               << "shu", "liang" >> } : Includes(ToLowerCase(m), k)
HasSearchKeyword(m) ==
    \E k \in { << "sou", "suo" >>, << "cha", "zhao" >>, << "zhao" >>,
               << "xiang", "guan", "zu", "jian" >> } : Includes(ToLowerCase(m), k)
Mentions(m, w) == Includes(ToLowerCase(m), Chars(w))
MentionsComponent(m) == \E i \in 1..Len(commonComponents) : Mentions(m, commonComponents[i])
NoRuleMatches(m) == ~HasStatsKeyword(m) /\ ~HasSearchKeyword(m) /\ ~MentionsComponent(m)

AllProbesFailed == \A i \in Entries("probe") : ~log[i].ok

C4_CannedWhenNothingAvailable ==
    (mode = "chat" /\ pc = "done" /\ NoRuleMatches(message) /\ AllProbesFailed) =>
        /\ toolAction = NoCall
        /\ result = Resolved(CannedChat(message))
        /\ ~IsFailureChunk(result.v)
        /\ Entries("callTool") = {}
        /\ Entries("spawn") = {}
        /\ Entries("generate") = {}

C4_Witness ==
    /\ mode = "chat"
    /\ pc = "done"
    /\ NoRuleMatches(message)
    /\ AllProbesFailed
    /\ Len(log) = 2

(***************************************************************************)
(* C5.  As claimed: in classify with the backend available, the result is  *)
(* the call the parser yields when it yields one, and in every other case  *)
(* (the parser returns none, or the request fails) the result of the       *)
(* keyword fallback for the utterance.                                     *)
(***************************************************************************)
ClassifiedAvailable == mode = "classify" /\ pc = "done" /\ log[1].ok

C5_FallbackOnNone ==
    ClassifiedAvailable =>
        LET p == parseToolCallResponse(log[2].text).v
        IN  toolAction = IF log[2].ok /\ p # NoCall THEN p
                         ELSE fallbackToolDetection(message)

(***************************************************************************)
(* C5 as amended.  In classify with the backend available: when the        *)
(* generate request succeeds, classify returns what the parser returns, a  *)
(* call named in the catalog or none, and the keyword fallback is not      *)
(* consulted; only when the generate request fails does classify return    *)
(* the result of the keyword fallback for the utterance.                   *)
(***************************************************************************)
C5_NoneIsReturned ==
    ClassifiedAvailable =>
        /\ Len(log) = 2
        /\ log[2].op = "generate"
        /\ log[2].ok =>
               /\ toolAction = parseToolCallResponse(log[2].text).v
               /\ toolAction = NoCall \/ \E i \in 1..Len(toolDescriptions) :
                                            NameOf(toolAction) = << toolDescriptions[i] >>
        /\ ~log[2].ok => toolAction = fallbackToolDetection(message)

\* the backend answers null to an utterance that names a component
C5_Witness ==
    /\ ClassifiedAvailable
    /\ log[2].ok
    /\ log[2].text = << "null" >>
    /\ message = << "B", "u", "t", "t", "o", "n" >>
    /\ toolAction = NoCall
    /\ fallbackToolDetection(message) # NoCall

(***************************************************************************)
(* C6.  With the backend unavailable classify sends no generate request    *)
(* and applies the keyword rules in a fixed order: a statistics keyword    *)
(* gives the statistics call with empty arguments, whatever else the       *)
(* utterance holds; otherwise a search keyword gives the search call,      *)
(* whatever component it mentions; otherwise a mentioned component of the  *)
(* list gives the detail call with that name, first letter in upper case   *)
(* (the first of the list among those mentioned); otherwise none.          *)
(***************************************************************************)
ExpectedComponent(m) ==
    IF Mentions(m, "button") THEN << "B", "u", "t", "t", "o", "n" >>
    ELSE IF Mentions(m, "table") THEN << "T", "a", "b", "l", "e" >>
    ELSE << "T", "a", "b" >>

CatalogNames ==
    { << "get_kpc_component" >>, << "search_kpc_components" >>,
      << "get_kpc_usage_examples" >>, << "validate_kpc_usage" >>, << "get_kpc_stats" >> }

NamedInCatalog(v) ==
    v.t = "obj" /\ Get(v, "name").t = "str" /\ Get(v, "name").s \in CatalogNames

C7_ParseTotal ==
    LET c == Candidate(raw)
        j == JSONparse(c)
    IN  /\ ~parsed.threw
        /\ parsed.v = NoCall \/ NamedInCatalog(parsed.v)
        /\ (c = << >> \/ ToLowerCase(c) = << "null" >> \/ ~j.ok \/ ~NamedInCatalog(j.v))
               => parsed.v = NoCall

\* JSON.parse throws on the candidate and none is returned
C7_Witness ==
    /\ raw # << >>
    /\ intended = NoCall
    /\ ~JSONparse(Candidate(raw)).ok
    /\ parseBody(raw).threw
    /\ parsed = [threw |-> FALSE, v |-> NoCall]

MarkerFree(p) ==
    \A i \in 1..Len(p) : p[i] \notin {"FENCE", "FENCEjson", "<think>", "</think>"}

C9_ConnectAtMostOnce ==
    (closes = 0 /\ connFails = 0) =>
        /\ spawns <= 1
        /\ calls >= 1 => spawns = 1 /\ connected
        /\ (ops = calls /\ pc = "tool_call") =>
               log = IF calls = 1 THEN << SpawnEntry(TRUE) >> ELSE << >>

\* three calls in sequence with no connect() before them, one spawn
C9_Witness ==
    /\ closes = 0
    /\ connFails = 0
    /\ ops = 3
    /\ calls = 3
    /\ pc = "done"
    /\ spawns = 1

(***************************************************************************)
(* C10.  When a client method fails with a transport failure (the child    *)
(* process has exited), the client is disconnected afterwards, so that     *)
(* the next call connects anew.                                            *)
(***************************************************************************)
C10_ResetOnTransportFailure ==
    (mode = "direct" /\ pc = "done" /\ result = Rejected(TransportError)) => ~connected

(***************************************************************************)
(* C11.  Whenever disconnect() is called on a connected client and         *)
(* returns, the client is disconnected (isConnected() is false), also when *)
(* closing the channel fails.                                              *)
(***************************************************************************)
C11_DisconnectedAfterDisconnect ==
    (Len(log) >= 2 /\ Last(log).op = "disconnect" /\ log[Len(log) - 1].op = "close")
        => ~connected

(***************************************************************************)
(* C12.  disconnect() never throws; a disconnect() directly after a        *)
(* completed disconnect() closes no channel and leaves the client          *)
(* disconnected; disconnect() on a client that is not connected does       *)
(* nothing.                                                                *)
(***************************************************************************)
C12_SecondDisconnectNoop ==
    /\ \A i \in Entries("disconnect") : ~log[i].threw
    /\ \A i \in Entries("disconnect") :
           (i < Len(log) /\ log[i + 1].op \in {"close", "disconnect"})
               => log[i + 1].op = "disconnect"
    /\ (Len(log) >= 2 /\ Last(log).op = "disconnect"
            /\ log[Len(log) - 1].op = "disconnect") => ~connected

(***************************************************************************)
(* C13.  connect() on a connected client spawns nothing and leaves the     *)
(* client connected; connect() on a disconnected client leaves it          *)
(* connected exactly when the spawn and the handshake succeed, and         *)
(* otherwise leaves it disconnected and raises the error to the caller.    *)
(***************************************************************************)
C13_ConnectStep ==
    DirectConnect =>
        /\ connected =>
               /\ spawns' = spawns
               /\ connected'
               /\ alive' = alive
               /\ Last(log').op = "connect" /\ ~Last(log').threw
               /\ Len(log') = Len(log) + 1
        /\ ~connected =>
               /\ spawns' = spawns + 1
               /\ Len(log') = Len(log) + 2
               /\ log'[Len(log) + 1].op = "spawn"
               /\ connected' <=> log'[Len(log) + 1].ok
               /\ connected' => result' = Resolved(<< >>) /\ ~Last(log').threw
               /\ ~connected' => result'.kind = "rejected" /\ Last(log').threw

C13_ConnectContract == [][C13_ConnectStep]_vars

\* connect() has failed once and then succeeded, and was called once more
C13_Witness ==
    /\ Len(log) = 5
    /\ log[1] = SpawnEntry(FALSE)
    /\ log[2] = ConnectEntry(TRUE)
    /\ log[3] = SpawnEntry(TRUE)
    /\ log[4] = ConnectEntry(FALSE)
    /\ log[5] = ConnectEntry(FALSE)
    /\ connected
    /\ spawns = 2

(***************************************************************************)
(* C14.  connect() splits the configured command line on whitespace into   *)
(* an executable and a list of arguments none of which is empty, and when  *)
(* the executable is empty (an empty command line, or one that starts with *)
(* a separator) it fails before a child process is spawned and leaves the  *)
(* client disconnected.                                                    *)
(***************************************************************************)
IsSeparator(tok) == tok \in {" ", "\t"}
HasSeparator(str) == \E i \in 1..Len(str) : IsSeparator(str[i])

C14_CommandLineSplit ==
    /\ transport # JNull =>
           /\ transport.command # << >>
           /\ ~HasSeparator(transport.command)
           /\ \A i \in 1..Len(transport.args) :
                  transport.args[i] # << >> /\ ~HasSeparator(transport.args[i])
    /\ (serverCommand = << >> \/ IsSeparator(serverCommand[1])) =>
           spawns = 0 /\ ~connected /\ transport = JNull

(***************************************************************************)
(* C15.  A client method whose response has no content sequence, or an     *)
(* empty one, or a first segment that is not of kind text or whose text is *)
(* empty, returns the sentinel of that method: it neither fails nor        *)
(* returns the text of that segment.                                       *)
(***************************************************************************)
NoContentReply(r) ==
    \/ ~r.hasContent
    \/ r.content = << >>
    \/ r.content[1].type # "text"
    \/ ~r.content[1].hasText
    \/ r.content[1].text = << >>

C15_SentinelOnNoContent ==
    (mode = "direct" /\ pc = "done" /\ log # << >> /\ Last(log).op = "callTool"
        /\ Last(log).ok /\ NoContentReply(Last(log).reply))
        => result = Resolved(Sentinel(NameOf(toolAction)[1]))

(***************************************************************************)
(* C16.  getAvailableTools() never raises: whenever the transport cannot   *)
(* answer, also when the implicit connect fails, it returns the empty      *)
(* sequence.                                                               *)
(***************************************************************************)
C16_ListNeverRaises ==
    (log # << >> /\ Last(log).op = "getAvailableTools") =>
        /\ ~Last(log).threw
        /\ result.kind = "resolved"
        /\ (log[Len(log) - 1].op # "listTools" \/ ~log[Len(log) - 1].ok) => result.v = << >>

(***************************************************************************)
(* C17.  For the same utterance and the same behaviour of the backend and  *)
(* of the transport, the chunks chatStream emits, concatenated, are the    *)
(* string chat returns.  Stated for the runs in which no generate request  *)
(* and no read fails: BufferedOutput is what chat returns for the          *)
(* classification, the capability result, the probe outcomes and the       *)
(* backend answer of the run.                                              *)
(***************************************************************************)
NoBackendFailure == \A i \in Entries("generate") \cup Entries("read") : log[i].ok

BufferedOutput ==
    IF Last(log).op = "probe"
    THEN IF toolAction = NoCall THEN CannedChat(message) ELSE toolResult
    ELSE Last(log).text

C17_StreamEqualsBuffered ==
    (pc = "done" /\ mode \in {"chat", "chatStream"} /\ NoBackendFailure) =>
        /\ mode = "chat" => result.v = BufferedOutput
        /\ mode = "chatStream" => Flatten(sink) = BufferedOutput

(***************************************************************************)
(* C18.  In streaming mode, however the backend's newline-delimited        *)
(* records are split into reads, a record split across two reads           *)
(* included, every non-empty text delta reaches the sink once and in       *)
(* order: when the stream has ended without a failure, the chunks emitted  *)
(* after the status notice, concatenated, are the backend's deltas,        *)
(* concatenated.                                                           *)
(***************************************************************************)
AnswerChunks == IF toolAction = NoCall THEN sink ELSE Tail(sink)

C18_EveryDeltaForwarded ==
    (mode = "chatStream" /\ pc = "done" /\ Last(log).op = "generate" /\ Last(log).ok)
        => Flatten(AnswerChunks) = Last(log).text

(***************************************************************************)
(* C19.  In every host (API server, CLI, demo), when a termination signal  *)
(* arrives while the client is connected, the process exits only after     *)
(* disconnect() has been called and has completed, and no child process is *)
(* alive after the exit.                                                   *)
(***************************************************************************)
C19_DisconnectBeforeExit ==
    (proc = "exited" /\ \E i \in Entries("signal") : log[i].connected)
        => /\ Last(log).op = "disconnect"
           /\ ~alive

(***************************************************************************)
(* C20.  checkOllamaService never throws: it returns true exactly when     *)
(* the liveness request ends with a success status, and false when the     *)
(* request fails or ends with another status; the invocation that asked    *)
(* goes on (the catch of chat or chatStream is not entered by a probe).    *)
(***************************************************************************)
C20_ProbeTotal ==
    /\ \A i \in Entries("probe") :
           /\ log[i].outcome \in {"ok", "status", "error"}
           /\ log[i].ok <=> log[i].outcome = "ok"
    /\ (log # << >> /\ Last(log).op = "probe") =>
           /\ result.kind # "rejected"
           /\ Last(log).ok => pc \in {"detect_generate", "final_generate", "direct_generate"}
           /\ ~Last(log).ok =>
                  /\ pc \notin {"detect_generate", "final_generate", "direct_generate"}
                  /\ result.v = << >> \/ result.v[1] # ErrChat(<< >>)[1]
                  /\ \A j \in 1..Len(sink) : sink[j][1] # ErrChat(<< >>)[1]

\* the first probe ended with a non-success status, the second with an error
C20_Witness ==
    /\ mode = "chat"
    /\ pc = "done"
    /\ Len(log) = 2
    /\ log[1].op = "probe" /\ log[1].outcome = "status" /\ ~log[1].ok
    /\ log[2].op = "probe" /\ log[2].outcome = "error" /\ ~log[2].ok
    /\ result = Resolved(CannedChat(message))

(***************************************************************************)
(* C21.  initialize() rejects exactly when the connection to the server    *)
(* cannot be established; an unavailable backend at startup does not make  *)
(* it fail, and after an initialize() that succeeded the client is         *)
(* connected.                                                              *)
(***************************************************************************)
C21_InitializeStep ==
    StartHost =>
        /\ Len(log') >= 1
        /\ log'[1].op = "spawn"
        /\ result'.kind \in {"resolved", "rejected"}
        /\ result'.kind = "rejected" <=> ~log'[1].ok
        /\ result'.kind = "rejected" => ~connected' /\ Len(log') = 1 /\ proc' = "exited"
        /\ result'.kind = "resolved" =>
               /\ connected'
               /\ proc' = "up"
               /\ Len(log') = 2
               /\ log'[2].op = "probe"

C21_InitializeContract == [][C21_InitializeStep]_vars

\* initialize() has succeeded although the backend did not answer its probe
C21_Witness ==
    /\ proc = "up"
    /\ pc = "idle"
    /\ result = Resolved(<< >>)
    /\ connected
    /\ Len(log) = 2
    /\ log[1] = SpawnEntry(TRUE)
    /\ log[2].op = "probe" /\ ~log[2].ok /\ log[2].outcome = "error"

(***************************************************************************)
(* C22.  In every run of chat and chatStream a request goes to the         *)
(* capability transport only for a call whose name is in the catalog; a    *)
(* call the backend proposes under any other name is treated as absent:    *)
(* no call is dispatched, no client method is started and no request is    *)
(* sent.                                                                   *)
(***************************************************************************)
ProposesOutsideCatalog(text) ==
    LET j == JSONparse(Candidate(text))
    IN  /\ j.ok
        /\ j.v.t = "obj"
        /\ Get(j.v, "name").t = "str"
        /\ Get(j.v, "name").s \notin CatalogNames

C22_OnlyCatalogCalls ==
    /\ \A i \in Entries("callTool") : log[i].name \in CatalogNames
    /\ (calls > 0 \/ pc \in {"tool_connect", "tool_call"}) => NamedInCatalog(toolAction)
    /\ \A i \in Generates("classify") :
           (log[i].ok /\ ProposesOutsideCatalog(log[i].text)) =>
               /\ toolAction = NoCall
               /\ calls = 0
               /\ Entries("callTool") = {}
               /\ Entries("spawn") = {}
               /\ \A j \in 1..Len(sink) : sink[j][1] # StatusNotice(<< >>)[1]

\* the backend proposed list_kpc_components, which the catalog does not
\* hold, and the invocation ended with a direct answer
C22_Witness ==
    /\ mode = "chatStream"
    /\ pc = "done"
    /\ Len(log) >= 4
    /\ log[2].op = "generate" /\ log[2].kind = "classify" /\ log[2].ok
    /\ log[2].text = Render(Call("list_kpc_components", NoArgs))
    /\ log[4].op = "generate" /\ log[4].kind = "direct" /\ log[4].ok
    /\ toolAction = NoCall
    /\ sink # << >>

(***************************************************************************)
(* C23.  When the capability call of a chat or chatStream invocation fails *)
(* (the implicit connect or the request) or returns no usable content,     *)
(* the failure becomes a descriptive string result and the invocation goes *)
(* on with its composition step: it probes the backend and then either     *)
(* synthesises the answer from that string or returns the string itself.   *)
(***************************************************************************)
\* the strings executeTool may make of the capability request logged at i
DegradedResults(i) ==
    LET e == log[i]
    IN  IF e.op = "spawn" THEN {ToolFailed(SpawnError)}
        ELSE IF ~e.ok THEN {ToolFailed(RequestError), ToolFailed(TransportError)}
        ELSE IF ~e.reply.hasContent THEN {ToolFailed(ReadOfUndefined)}
        ELSE IF e.reply.content = << >> \/ ~e.reply.content[1].hasText
                \/ e.reply.content[1].text = << >>
        THEN {Sentinel(e.name[1])}
        ELSE {NoValidResult(e.name)}

\* the capability request logged at i failed or brought no usable content
FailedOrEmpty(i) ==
    \/ log[i].op = "spawn" /\ ~log[i].ok
    \/ /\ log[i].op = "callTool"
       /\ \/ ~log[i].ok
          \/ ~log[i].reply.hasContent
          \/ log[i].reply.content = << >>
          \/ ~log[i].reply.content[1].hasText
          \/ IsEmptyResult(log[i].reply.content[1].text)

C23_FailureBecomesResult ==
    \A i \in 1..Len(log) :
        FailedOrEmpty(i) =>
            /\ result.kind # "rejected"
            /\ toolResult # << >>
            /\ toolResult \in DegradedResults(i)
            /\ Len(log) = i => pc = "post_probe"
            /\ Len(log) > i => log[i + 1].op = "probe"
            /\ (Len(log) = i + 1 /\ ~log[i + 1].ok) =>
                   /\ pc = "done"
                   /\ mode = "chat" => result = Resolved(toolResult)
                   /\ mode = "chatStream" => Last(sink) = toolResult
            /\ (Len(log) = i + 1 /\ log[i + 1].ok) => pc = "final_generate"
            /\ Len(log) > i + 1 =>
                   /\ log[i + 2].op = "generate"
                   /\ log[i + 2].kind = "final"
                   /\ log[i + 2].prompt = AnswerPrompt("final")

\* the request failed, the backend was available afterwards and answered
\* from the failure text
C23_Witness ==
    /\ mode = "chat"
    /\ pc = "done"
    /\ \E i \in Entries("callTool") :
           /\ ~log[i].ok
           /\ Len(log) = i + 2
           /\ log[i + 1].op = "probe" /\ log[i + 1].ok
           /\ log[i + 2].op = "generate" /\ log[i + 2].ok
           /\ result = Resolved(log[i + 2].text)
    /\ toolResult = ToolFailed(RequestError)

(***************************************************************************)
(* C24.  Every chat invocation eventually returns and every chatStream     *)
(* invocation eventually resolves, provided every request it awaits (each  *)
(* probe, each generate request, each capability call, each read) is       *)
(* eventually settled and the response body eventually closes.             *)
(***************************************************************************)
C24_InvocationEnds ==
    (mode \in {"chat", "chatStream"}) ~> (pc = "done" /\ result.kind = "resolved")

\* a chatStream invocation has resolved after its read loop took a record
\* in two parts and ran until the body closed
C24_Witness ==
    /\ mode = "chatStream"
    /\ pc = "done"
    /\ result = Resolved(<< >>)
    /\ Entries("read") = {}
    /\ Last(log).op = "generate" /\ Last(log).stream /\ Last(log).ok
    /\ Last(log).text = << "Hel", "lo" >>
    /\ sink = << << "lo" >> >>
    /\ wire = << >>

(***************************************************************************)
(* C25.  In every run of chat and chatStream each generate request to the  *)
(* backend (classification, direct answer, synthesis; buffered or          *)
(* streamed) comes directly after an availability probe that found the     *)
(* backend available: no other request to the backend or to the transport  *)
(* lies between the two.                                                   *)
(***************************************************************************)
C25_ProbeBeforeGenerate ==
    /\ \A i \in Entries("generate") :
           /\ i > 1
           /\ log[i - 1].op = "probe"
           /\ log[i - 1].outcome = "ok"
           /\ log[i - 1].ok
    /\ pc \in {"detect_generate", "final_generate", "direct_generate"} =>
           /\ log # << >>
           /\ Last(log).op = "probe"
           /\ Last(log).outcome = "ok"

\* a chatStream invocation with all three kinds of request around a
\* capability call: classification and synthesis, each after its own probe
C25_Witness ==
    /\ mode = "chatStream"
    /\ pc = "stream_read"
    /\ Len(log) = 6
    /\ log[1].op = "probe" /\ log[1].ok
    /\ log[2].op = "generate" /\ log[2].kind = "classify"
    /\ log[3].op = "spawn"
    /\ log[4].op = "callTool"
    /\ log[5].op = "probe" /\ log[5].ok
    /\ log[6].op = "generate" /\ log[6].kind = "final" /\ log[6].stream

(***************************************************************************)
(* C26.  In chatStream a status notice is emitted exactly when the         *)
(* classification produced a capability call; it is then the first chunk   *)
(* of the invocation, it is emitted once, and it is in the sink before the *)
(* capability request is issued.                                           *)
(***************************************************************************)
IsStatusNotice(c) == c # << >> /\ c[1] = StatusNotice(<< >>)[1]
StatusNotices == {j \in 1..Len(sink) : IsStatusNotice(sink[j])}

C26_StatusNoticeFirst ==
    /\ mode = "chat" => sink = << >>
    /\ mode = "chatStream" =>
           /\ pc \in {"detect_probe", "detect_generate"} => sink = << >>
           /\ pc \notin {"detect_probe", "detect_generate"} =>
                  /\ toolAction # NoCall <=> StatusNotices # {}
                  /\ toolAction # NoCall =>
                         /\ StatusNotices = {1}
                         /\ sink[1] = StatusNotice(NameOf(toolAction))
           /\ pc \in {"tool_connect", "tool_call"} =>
                  sink = << StatusNotice(NameOf(toolAction)) >>
           /\ (calls > 0 \/ Entries("spawn") \cup Entries("callTool") # {}) =>
                  /\ sink # << >>
                  /\ IsStatusNotice(sink[1])

\* the notice is in the sink and the capability request has not been sent
C26_Witness ==
    /\ mode = "chatStream"
    /\ pc = "tool_call"
    /\ Entries("callTool") = {}
    /\ toolAction = Call("get_kpc_stats", NoArgs)
    /\ sink = << StatusNotice(<< "get_kpc_stats" >>) >>

(***************************************************************************)
(* C27.  What stands inside a paired thinking block is never parsed as the *)
(* answer: the result is that of the text with the block taken out; when   *)
(* the only call object of the text stands inside the block the result is  *)
(* none, and a call inside the block never replaces the one outside it.    *)
(***************************************************************************)
C27_ThinkingNeverParsed ==
    thought.inner # NoCall =>
        /\ parsed = parseToolCallResponse(thought.outside)
        /\ parsed.v \in {NoCall, thought.outer}
        /\ thought.outer = NoCall => parsed.v = NoCall
        /\ thought.inner # thought.outer => parsed.v # thought.inner

\* the thinking block holds one call and the text after it another: the
\* one outside is returned
C27_Witness ==
    /\ thought.inner = Call("get_kpc_stats", NoArgs)
    /\ thought.outer = Call("get_kpc_component", Arg1("component", JStr(<< "Button" >>)))
    /\ parsed.v = thought.outer
    /\ raw[1] = "<think>"

(***************************************************************************)
(* C28.  The streaming decoder takes a record with done = true as the end  *)
(* of the response: no text delta of a record that follows a done record   *)
(* reaches the sink (and reading also ends when the stream closes).        *)
(***************************************************************************)
\* the records of a body up to its first done record, that record included
RECURSIVE UntilDone(_)
UntilDone(body) ==
    IF body = << >> THEN << >>
    ELSE IF Head(body).done THEN << Head(body) >>
    ELSE << Head(body) >> \o UntilDone(Tail(body))

C28_DoneEndsResponse ==
    \A i \in Entries("generate") :
        (log[i].stream /\ log[i].ok) =>
            \A b \in ChatBodies :
                Deltas(b) = log[i].text =>
                    \A j \in 1..Len(AnswerChunks) :
                        \/ IsFailureChunk(AnswerChunks[j])
                        \/ \E k \in 1..Len(UntilDone(b)) :
                               AnswerChunks[j] = UntilDone(b)[k].text

(***************************************************************************)
(* C29.  When the caller of a streamed response goes away (the sink fails  *)
(* or the HTTP response closes) while the backend is still sending, the    *)
(* assistant stops pulling from the backend: after the read that was in    *)
(* flight at that moment no further read of the body returns to it.        *)
(***************************************************************************)
ReadsAfter(i) == {j \in Entries("read") : j > i /\ log[j].ok}

C29_StopsOnClientDisconnect ==
    \A i \in Entries("sinkFailed") : Cardinality(ReadsAfter(i)) <= 1

(***************************************************************************)
(* C30.  When two or more capability calls are started at the same time on *)
(* a disconnected client, at most one child process is spawned and all of  *)
(* them use that connection: the client never owns more than one live      *)
(* child process.                                                          *)
(***************************************************************************)
C30_SingleChildProcess == inflight.live <= 1

(***************************************************************************)
(* C31.  When disconnect() is called while a connect() or another          *)
(* disconnect() is still in flight, then once all of them have completed   *)
(* the client is disconnected, no child process is alive, and the channel  *)
(* was closed at most once.                                                *)
(***************************************************************************)
C31_DisconnectDuringConnect ==
    ( /\ \A c \in Callers : inflight.at[c] = "idle"
      /\ log # << >>
      /\ Last(log).op = "disconnectCall"
      /\ Last(log).busy
      /\ spawns <= 1
      /\ connFails = 0 )
        => /\ ~connected
           /\ inflight.live = 0
           /\ closes <= 1

(***************************************************************************)
(* C32.  One chat or chatStream invocation issues at most one capability   *)
(* request and at most two generate requests, one for the classification   *)
(* and one for the answer, and it issues the answering request only after  *)
(* the capability call has completed.                                      *)
(***************************************************************************)
Answering == Generates("final") \cup Generates("direct")

C32_RequestBudget ==
    /\ Cardinality(Entries("callTool")) <= 1
    /\ Cardinality(Entries("spawn")) <= 1
    /\ calls <= 1
    /\ Cardinality(Generates("classify")) <= 1
    /\ Cardinality(Answering) <= 1
    /\ \A i \in Generates("classify") : \A j \in Answering : i < j
    /\ \A j \in Generates("final") :
           /\ toolAction # NoCall
           /\ toolResult # << >>
           /\ \A i \in Entries("callTool") \cup Entries("spawn") : i < j
    /\ \A j \in Generates("direct") :
           /\ toolAction = NoCall
           /\ Entries("callTool") \cup Entries("spawn") = {}
    /\ pc \in {"tool_connect", "tool_call"} => Answering = {}

\* a chat invocation that used its whole budget: the classification, the
\* capability request, the synthesis
C32_Witness ==
    /\ mode = "chat"
    /\ pc = "done"
    /\ Cardinality(Generates("classify")) = 1
    /\ Cardinality(Entries("callTool")) = 1
    /\ Cardinality(Generates("final")) = 1
    /\ Last(log).op = "generate" /\ Last(log).kind = "final" /\ Last(log).ok
    /\ result = Resolved(Last(log).text)

(***************************************************************************)
(* C33.  In buffered mode, once the capability call has succeeded with a   *)
(* non-empty result, chat returns the synthesised answer or the raw        *)
(* capability result and never an error message, also when the backend     *)
(* becomes unreachable between the probe after the call and the synthesis  *)
(* request.                                                                *)
(***************************************************************************)
\* the capability request brought a usable result, which executeTool returned
CapabilitySucceeded ==
    \E i \in Entries("callTool") :
        /\ log[i].ok
        /\ log[i].reply.hasContent
        /\ log[i].reply.content # << >>
        /\ log[i].reply.content[1].hasText
        /\ ~IsEmptyResult(log[i].reply.content[1].text)
        /\ toolResult = log[i].reply.content[1].text

C33_NoErrorAfterCapability ==
    (mode = "chat" /\ pc = "done" /\ CapabilitySucceeded) =>
        /\ result.kind = "resolved"
        /\ \/ result.v = toolResult
           \/ \E j \in Generates("final") : log[j].ok /\ result.v = log[j].text

(***************************************************************************)
(* C34.  Every call the classification returns, from the parser or from    *)
(* the fallback rules, carries an arguments mapping, so that executeTool   *)
(* never reads an argument of an absent mapping: a parsed object with a    *)
(* valid name and no arguments is not returned as a call.                  *)
(***************************************************************************)
C34_CallsCarryArguments ==
    /\ toolAction # NoCall => ArgsOf(toolAction).t = "obj"
    /\ toolResult # ToolFailed(ReadOfUndefined)
           \/ \E i \in Entries("callTool") : log[i].ok /\ ~log[i].reply.hasContent

====
